---- MODULE Spec2Model ----
(***************************************************************************)
(* A model of ranch-hand's cache population pipeline (`rh cache populate`) *)
(* : version validation, the checksum manifest, the concurrent artifact    *)
(* downloads with the image-bundle fallback, the certificate prompt of the *)
(* HTTP client, and the aggregation of the results.                        *)
(*                                                                         *)
(* Strings are sequences of one-character strings, so that the substring   *)
(* tests, the trimming and the splitting of the source are computed and    *)
(* not assumed.  The NUL byte is written "NUL", a backslash "\\".          *)
(***************************************************************************)
EXTENDS Integers, Sequences, FiniteSets, TLC

VARIABLES
    versionArg,     \* populate's `version: Option<&str>` argument
    force,          \* populate's `force` argument
    insecure,       \* cli.insecure
    stdinTerminal,  \* std::io::stdin().is_terminal()
    download_timeout,   \* cli.download_timeout (--download-timeout)
    pc,             \* populate's position
    version,        \* the resolved version string
    validated,      \* validate_version returned Ok for `version`
    versionDir,     \* the version cache directory path, once built
    dirCreated,     \* fs::create_dir_all(&version_dir) has run
    dirExists,      \* the version directory exists on disk
    fs,             \* the files of the version directory: name -> content
    fsChanged,      \* history: the run created, wrote or deleted something
    apiRequests,    \* history: requests sent to the releases API
    available,      \* the versions fetch_available_versions returned
    checksums,      \* the parsed manifest (download_checksums's result)
    tpc,            \* per download task: its position
    cand,           \* per task: index of the candidate file being fetched
    call,           \* per task: the current request_with_cert_handling call
    calls,          \* history, per task: number of calls started
    body,           \* per task: the response chunks not yet written
    lastError,      \* per task: download_images_with_fallback's last_error
    result,         \* per task: the DownloadResult.result
    verification,   \* per task: the DownloadResult.verification
    verifyCount,    \* history: per file, the verifications performed
    results,        \* the results join_all handed to the aggregator
    report,         \* process_download_results's error list
    warnings,       \* history: the checksum warnings printed under --force
    outcome,        \* populate's return value
    input,          \* the input of the pure function under check
    output,         \* its result
    CRYPTO_PROVIDER_INIT,   \* certs.rs: the state of the static Once
    installs,       \* history: the times the provider was installed
    cpc,            \* per certificate check: its position
    tlsConfig,      \* per certificate check: the TLS configuration it built
    checkResult     \* per certificate check: check_domain_inner's result

vars ==
    << versionArg, force, insecure, stdinTerminal, download_timeout, pc, version, validated,
       versionDir, dirCreated, dirExists, fs, fsChanged, apiRequests, available,
       checksums, tpc, cand, call, calls, body, lastError, result,
       verification, verifyCount, results, report, warnings, outcome,
       input, output, CRYPTO_PROVIDER_INIT, installs, cpc, tlsConfig,
       checkResult >>

(***************************************************************************)
(* Bounds of the model.                                                    *)
(***************************************************************************)
MaxVersionLen == 3

MaxLines == 2

NumChecks == 3

(***************************************************************************)
(* String helpers (the std::str methods the source calls).                 *)
(***************************************************************************)
Upper ==
    <<"A","B","C","D","E","F","G","H","I","J","K","L","M",
      "N","O","P","Q","R","S","T","U","V","W","X","Y","Z">>

Lower ==
    <<"a","b","c","d","e","f","g","h","i","j","k","l","m",
      "n","o","p","q","r","s","t","u","v","w","x","y","z">>

HexDigits ==
    {"0","1","2","3","4","5","6","7","8","9",
     "a","b","c","d","e","f","A","B","C","D","E","F"}

\* The characters of the White_Space property that cannot be written in a
\* string of this module, each as a token that names it.
WideSpaces ==
    <<"U+2000","U+2001","U+2002","U+2003","U+2004","U+2005","U+2006","U+2007",
      "U+2008","U+2009","U+200A","U+2028","U+2029","U+202F","U+205F","U+3000">>

WideSpaceCodes ==
    <<8192, 8193, 8194, 8195, 8196, 8197, 8198, 8199,
      8200, 8201, 8202, 8232, 8233, 8239, 8287, 12288>>

\* char::is_whitespace (the White_Space property): U+0009 to U+000D, the
\* space, U+0085, U+00A0, U+1680 and the sixteen characters above.
Whitespace ==
    {" ", "\t", "\n", "", "\f", "\r", "", " ", " "}
    \cup {WideSpaces[i] : i \in 1..16}

\* The upper-case letters of Latin-1 (U+00C0 to U+00DE without U+00D7) and
\* their lower-case forms.
Latin1Upper ==
    <<"À","Á","Â","Ã","Ä","Å","Æ","Ç","È","É","Ê","Ë","Ì","Í","Î","Ï","Ð","Ñ",
      "Ò","Ó","Ô","Õ","Ö","Ø","Ù","Ú","Û","Ü","Ý","Þ">>

Latin1Lower ==
    <<"à","á","â","ã","ä","å","æ","ç","è","é","ê","ë","ì","í","î","ï","ð","ñ",
      "ò","ó","ô","õ","ö","ø","ù","ú","û","ü","ý","þ">>

\* The two capitals beyond Latin-1 that a letter of Latin-1 has, U+0178 of
\* U+00FF and U+039C of the micro sign U+00B5, each with its lower-case
\* form; U+03BC is the small mu.
CapitalsBeyondLatin1 == <<"U+0178", "U+039C">>

SmallOfCapitalsBeyondLatin1 == <<"ÿ", "U+03BC">>

\* char::to_lowercase and char::to_uppercase on the model's alphabet: ASCII,
\* Latin-1 and the three letters above; the other letters beyond Latin-1
\* are outside it.
AllUpper == Upper \o Latin1Upper \o CapitalsBeyondLatin1

AllLower == Lower \o Latin1Lower \o SmallOfCapitalsBeyondLatin1

UpperSet == {AllUpper[i] : i \in 1..Len(AllUpper)}

LowerOf ==
    [c \in UpperSet |-> AllLower[CHOOSE i \in 1..Len(AllUpper) : AllUpper[i] = c]]

LowerChar(c) == IF c \in UpperSet THEN LowerOf[c] ELSE c

to_lowercase(s) == [i \in 1..Len(s) |-> LowerChar(s[i])]

\* char::to_uppercase: the capital of a small letter; the sharp s becomes
\* two letters and the micro sign the capital mu.
UpperChars(c) ==
    IF \E i \in 1..Len(AllLower) : AllLower[i] = c
    THEN << AllUpper[CHOOSE i \in 1..Len(AllLower) : AllLower[i] = c] >>
    ELSE IF c = "ß" THEN <<"S", "S">>
    ELSE IF c = "µ" THEN <<"U+039C">>
    ELSE << c >>

RECURSIVE to_uppercase(_)
to_uppercase(s) ==
    IF Len(s) = 0 THEN << >> ELSE UpperChars(s[1]) \o to_uppercase(Tail(s))

contains(s, sub) ==
    \E i \in 1..(Len(s) - Len(sub) + 1) : SubSeq(s, i, i + Len(sub) - 1) = sub

starts_with(s, c) == Len(s) > 0 /\ s[1] = c

RECURSIVE trim_start(_)
trim_start(s) ==
    IF Len(s) > 0 /\ s[1] \in Whitespace THEN trim_start(Tail(s)) ELSE s

RECURSIVE trim_end(_)
trim_end(s) ==
    IF Len(s) > 0 /\ s[Len(s)] \in Whitespace
    THEN trim_end(SubSeq(s, 1, Len(s) - 1))
    ELSE s

trim(s) == trim_end(trim_start(s))

RECURSIVE trim_start_matches(_, _)
trim_start_matches(s, c) ==
    IF starts_with(s, c) THEN trim_start_matches(Tail(s), c) ELSE s

\* str::splitn(2, sep): at most two parts, split at the first separator.
splitn2(s, sep) ==
    IF \E i \in 1..Len(s) : s[i] = sep
    THEN LET i == CHOOSE k \in 1..Len(s) :
                      s[k] = sep /\ \A j \in 1..(k - 1) : s[j] # sep
         IN  << SubSeq(s, 1, i - 1), SubSeq(s, i + 1, Len(s)) >>
    ELSE << s >>

\* str::lines(): split at "\n"; the "\r" in front of a "\n" goes with it, a
\* "\r" at the end of a last line that has no "\n" stays; no final empty
\* line.
StripCr(l) ==
    IF Len(l) > 0 /\ l[Len(l)] = "\r" THEN SubSeq(l, 1, Len(l) - 1) ELSE l

RECURSIVE lines(_)
lines(s) ==
    IF Len(s) = 0 THEN << >>
    ELSE LET parts == splitn2(s, "\n")
         IN  IF Len(parts) = 1 THEN << s >>
             ELSE << StripCr(parts[1]) >> \o lines(parts[2])

RECURSIVE Concat(_)
Concat(ss) == IF Len(ss) = 0 THEN << >> ELSE Head(ss) \o Concat(Tail(ss))

Ok(v) == [ok |-> TRUE, val |-> v]
Err(e) == [ok |-> FALSE, err |-> e]

(***************************************************************************)
(* File names (src/src/paths.rs, src/src/commands/cache.rs), for the       *)
(* x86_64 build.                                                           *)
(***************************************************************************)
StrBinary ==
    <<"k","3","s">>

StrArch ==
    <<"a","m","d","6","4">>

StrImagesPrefix ==
    <<"k","3","s","-","a","i","r","g","a","p","-","i","m","a","g","e","s","-">>

StrSumPrefix ==
    <<"s","h","a","2","5","6","s","u","m","-">>

StrTxt ==
    <<".","t","x","t">>

StrTarZst ==
    <<".","t","a","r",".","z","s","t">>

StrTarGz ==
    <<".","t","a","r",".","g","z">>

StrTar ==
    <<".","t","a","r">>

arch_string == StrArch

k3s_binary_name == StrBinary

checksums_filename == StrSumPrefix \o arch_string \o StrTxt

\* download_images_with_fallback's `formats`, in the order they are tried.
formats ==
    << StrImagesPrefix \o arch_string \o StrTarZst,
       StrImagesPrefix \o arch_string \o StrTarGz,
       StrImagesPrefix \o arch_string \o StrTar >>

get_download_files ==
    << << "binary", k3s_binary_name >>,
       << "images", formats[1] >>,
       << "checksums", checksums_filename >> >>

FileNames ==
    {k3s_binary_name, checksums_filename} \cup {formats[i] : i \in 1..3}

(***************************************************************************)
(* validate_version                                                        *)
(***************************************************************************)
\* Mutant: the ".." test is left out.
validate_version_no_dotdot(v) ==
    IF Len(v) = 0
    THEN Err("cannot be empty")
    ELSE IF contains(v, <<"/">>) \/ contains(v, <<"\\">>)
    THEN Err("path separators")
    ELSE IF contains(v, <<"NUL">>)
    THEN Err("null bytes")
    ELSE Ok(v)

\* Mutant: every version is accepted.
validate_version_accept_all(v) == Ok(v)

validate_version(v) ==
    IF Len(v) = 0
    THEN Err("cannot be empty")
    ELSE IF contains(v, <<"/">>) \/ contains(v, <<"\\">>) \/ contains(v, <<".", ".">>)
    THEN Err("path separators")
    ELSE IF contains(v, <<"NUL">>)
    THEN Err("null bytes")
    ELSE Ok(v)

(***************************************************************************)
(* SHA-256 digests.  calculate_file_hash is tabulated on the file contents *)
(* the model uses; the values are the real digests, in hex::encode's       *)
(* lower case.                                                             *)
(***************************************************************************)
DigestEmpty ==
    <<"e","3","b","0","c","4","4","2","9","8","f","c","1","c","1","4","9","a","f","b","f","4",
      "c","8","9","9","6","f","b","9","2","4","2","7","a","e","4","1","e","4","6","4","9","b",
      "9","3","4","c","a","4","9","5","9","9","1","b","7","8","5","2","b","8","5","5">>

DigestA ==
    <<"c","a","9","7","8","1","1","2","c","a","1","b","b","d","c","a","f","a","c","2","3","1",
      "b","3","9","a","2","3","d","c","4","d","a","7","8","6","e","f","f","8","1","4","7","c",
      "4","e","7","2","b","9","8","0","7","7","8","5","a","f","e","e","4","8","b","b">>

DigestAB ==
    <<"f","b","8","e","2","0","f","c","2","e","4","c","3","f","2","4","8","c","6","0","c","3",
      "9","b","d","6","5","2","f","3","c","1","3","4","7","2","9","8","b","b","9","7","7","b",
      "8","b","4","d","5","9","0","3","b","8","5","0","5","5","6","2","0","6","0","3">>

ContentEmpty == << >>

ContentA == <<"a">>

ContentAB == <<"a", "b">>

Sha256(content) ==
    CASE content = ContentEmpty -> DigestEmpty
      [] content = ContentA -> DigestA
      [] content = ContentAB -> DigestAB

\* A file system maps the names of the files that exist to their contents.
calculate_file_hash(fsys, name) ==
    IF name \notin DOMAIN fsys THEN Err("Failed to open") ELSE Ok(Sha256(fsys[name]))

(***************************************************************************)
(* parse_checksum_file and the verification against the manifest.          *)
(***************************************************************************)
HashLen == 64

\* Mutant: the length of the digest is not checked.
parse_line_any_length(rawLine) ==
    LET line == trim(rawLine) IN
    IF Len(line) = 0 \/ starts_with(line, "#") THEN [kind |-> "skip"]
    ELSE LET parts == splitn2(line, " ") IN
         IF Len(parts) # 2 THEN [kind |-> "InvalidFormat"]
         ELSE LET hash == to_lowercase(trim(parts[1]))
                  filename == trim_start_matches(trim(parts[2]), "*")
              IN  IF \E i \in 1..Len(hash) : hash[i] \notin HexDigits
                  THEN [kind |-> "InvalidFormat"]
                  ELSE [kind |-> "entry", filename |-> filename, hash |-> hash]

\* One line of the manifest: "skip", an error, or a (filename, hash) pair.
parse_line(rawLine) ==
    LET line == trim(rawLine) IN
    IF Len(line) = 0 \/ starts_with(line, "#") THEN [kind |-> "skip"]
    ELSE LET parts == splitn2(line, " ") IN
         IF Len(parts) # 2 THEN [kind |-> "InvalidFormat"]
         ELSE LET hash == to_lowercase(trim(parts[1]))
                  filename == trim_start_matches(trim(parts[2]), "*")
              IN  IF Len(hash) # HashLen \/ \E i \in 1..Len(hash) : hash[i] \notin HexDigits
                  THEN [kind |-> "InvalidFormat"]
                  ELSE [kind |-> "entry", filename |-> filename, hash |-> hash]

\* Mutant: an entry that is already there is kept (first line wins).
insert_keep_first(map, k, v) ==
    [x \in (DOMAIN map) \cup {k} |-> IF x \in DOMAIN map THEN map[x] ELSE v]

\* HashMap::insert: a later entry for the same key replaces the earlier one.
insert(map, k, v) == [x \in (DOMAIN map) \cup {k} |-> IF x = k THEN v ELSE map[x]]

EmptyMap == [x \in {} |-> << >>]

RECURSIVE parse_lines(_, _)
parse_lines(ls, map) ==
    IF Len(ls) = 0 THEN Ok(map)
    ELSE LET p == parse_line(Head(ls)) IN
         CASE p.kind = "skip" -> parse_lines(Tail(ls), map)
           [] p.kind = "InvalidFormat" -> Err("InvalidFormat")
           [] p.kind = "entry" -> parse_lines(Tail(ls), insert(map, p.filename, p.hash))

\* Mutant: a malformed line is skipped instead of failing the parse.
RECURSIVE parse_lines_lenient(_, _)
parse_lines_lenient(ls, map) ==
    IF Len(ls) = 0 THEN Ok(map)
    ELSE LET p == parse_line(Head(ls)) IN
         IF p.kind = "entry"
         THEN parse_lines_lenient(Tail(ls), insert(map, p.filename, p.hash))
         ELSE parse_lines_lenient(Tail(ls), map)

parse_checksum_file_lenient(content) == parse_lines_lenient(lines(content), EmptyMap)

parse_checksum_file(content) == parse_lines(lines(content), EmptyMap)

\* Mutant: the expected digest is compared as written, not lower-cased.
verify_file_case_sensitive(fsys, name, expected_hash) ==
    LET actual == calculate_file_hash(fsys, name)
    IN  IF ~actual.ok THEN Err([kind |-> "Io"])
        ELSE IF actual.val # expected_hash
        THEN Err([kind |-> "Mismatch", filename |-> name,
                  expected |-> expected_hash, actual |-> actual.val])
        ELSE Ok("verified")

verify_file(fsys, name, expected_hash) ==
    LET actual == calculate_file_hash(fsys, name)
        expected_lower == to_lowercase(expected_hash)
    IN  IF ~actual.ok THEN Err([kind |-> "Io"])
        ELSE IF actual.val # expected_lower
        THEN Err([kind |-> "Mismatch", filename |-> name,
                  expected |-> expected_lower, actual |-> actual.val])
        ELSE Ok("verified")

verify_file_from_checksums(fsys, name, cs) ==
    IF name \notin DOMAIN cs
    THEN Err([kind |-> "NotFound", filename |-> name])
    ELSE verify_file(fsys, name, cs[name])

(***************************************************************************)
(* The HTTP client (src/src/client/http.rs).                               *)
(***************************************************************************)
K3S_RELEASES_URL ==
    <<"h","t","t","p","s",":","/","/","g","i","t","h","u","b",".","c","o","m","/","k","3",
      "s","-","i","o","/","k","3","s","/","r","e","l","e","a","s","e","s","/","d","o","w",
      "n","l","o","a","d">>

StrUnknown ==
    <<"u","n","k","n","o","w","n">>

StrCertificate ==
    <<"c","e","r","t","i","f","i","c","a","t","e">>

StrSsl ==
    <<"s","s","l">>

StrTls ==
    <<"t","l","s">>

StrSelfSigned ==
    <<"s","e","l","f"," ","s","i","g","n","e","d">>

StrSelfSignedUpper ==
    <<"S","E","L","F","_","S","I","G","N","E","D">>

StrLocalIssuer ==
    <<"u","n","a","b","l","e"," ","t","o"," ","g","e","t"," ","l","o","c","a","l"," ","i",
      "s","s","u","e","r">>

StrExpired ==
    <<"c","e","r","t","i","f","i","c","a","t","e"," ","h","a","s"," ","e","x","p","i","r",
      "e","d">>

StrHostname ==
    <<"h","o","s","t","n","a","m","e"," ","m","i","s","m","a","t","c","h">>

ReasonSelfSigned ==
    <<"S","e","l","f","-","s","i","g","n","e","d"," ","c","e","r","t","i","f","i","c","a",
      "t","e"," ","i","n"," ","c","h","a","i","n">>

ReasonChain ==
    <<"U","n","a","b","l","e"," ","t","o"," ","v","e","r","i","f","y"," ","c","e","r","t",
      "i","f","i","c","a","t","e"," ","c","h","a","i","n">>

ReasonExpired ==
    <<"C","e","r","t","i","f","i","c","a","t","e"," ","h","a","s"," ","e","x","p","i","r",
      "e","d">>

ReasonHostname ==
    <<"C","e","r","t","i","f","i","c","a","t","e"," ","h","o","s","t","n","a","m","e"," ",
      "m","i","s","m","a","t","c","h">>

ReasonPrefix ==
    <<"C","e","r","t","i","f","i","c","a","t","e"," ","e","r","r","o","r",":"," ">>

DEFAULT_API_TIMEOUT_SECS == 30

DEFAULT_DOWNLOAD_TIMEOUT_SECS == 600

\* cli.download_timeout: #[arg(long, env = "RH_DOWNLOAD_TIMEOUT",
\* default_value = "600")], any u64.  The runs are started with the default
\* and with a timeout shorter than DEFAULT_API_TIMEOUT_SECS.
DownloadTimeouts == {10, DEFAULT_DOWNLOAD_TIMEOUT_SECS}

\* HttpClientConfig::new(insecure)
HttpClientConfig_new(ins) ==
    [insecure |-> ins, interactive |-> ~ins, timeout_secs |-> DEFAULT_API_TIMEOUT_SECS]

\* HttpClientConfig::for_downloads_with_timeout(cli.insecure, cli.download_timeout)
for_downloads_with_timeout(ins, secs) ==
    [insecure |-> ins, interactive |-> ~ins, timeout_secs |-> secs]

\* `.context("Failed to build HTTP client")` on the builder's error.
BuildFailed == [kind |-> "Failed to build HTTP client"]

\* build_client(config): reqwest's ClientBuilder::build succeeds or not
\* (`built`; the TLS backend decides).  Ok(the verification mode of the
\* client), or the builder's error in its context.
build_client(config, built) ==
    IF built
    THEN Ok(IF config.insecure THEN "insecure" ELSE "strict")
    ELSE Err(BuildFailed)

\* The request timeout of the client build_client(config) builds.
client_timeout(config) == config.timeout_secs

\* build_insecure_client(): build_client(&HttpClientConfig::new(true)).
build_insecure_client(built) == build_client(HttpClientConfig_new(TRUE), built)

\* The request timeout of the client build_insecure_client() builds.
insecure_client_timeout == client_timeout(HttpClientConfig_new(TRUE))

\* A transport error: reqwest::Error's is_connect() and its Display text.
is_certificate_error(e) ==
    LET error_str == to_lowercase(e.text) IN
    \/ contains(error_str, StrCertificate)
    \/ contains(error_str, StrSsl)
    \/ contains(error_str, StrTls)
    \/ contains(error_str, StrSelfSigned)
    \/ contains(error_str, StrLocalIssuer)

(***************************************************************************)
(* url::Url::parse and Url::host_str, which extract_domain calls.  The      *)
(* alphabet of the model is U+0000 to U+00FF, the white space beyond it and *)
(* the letters the case mappings lead to (U+0178, U+039C, U+03BC); U+0000   *)
(* is the token "NUL" and U+0060 the token "GRAVE".  The code               *)
(* point of any other character is not modelled.  A host is read through    *)
(* its UTF-8 bytes, as the code reads it, so that percent-encoded bytes     *)
(* and a label in Punycode stand for any code point.  The tables hold the   *)
(* data of Unicode 15.0; the status of a code point that later versions of  *)
(* the data changed or assigned is not modelled.                            *)
(***************************************************************************)
\* U+0001 to U+001F: the i-th is the character of code i.
C0Control ==
    <<"","","","","","","","","\t","\n","","\f","\r","","","",
      "","","","","","","","","","","","","","","">>

\* U+0020 to U+007E: the i-th is the character of code 31 + i.
AsciiPrintable ==
    <<" ","!","\"","#","$","%","&","'","(",")","*","+",",","-",".","/","0",
      "1","2","3","4","5","6","7","8","9",":",";","<","=",">","?","@","A",
      "B","C","D","E","F","G","H","I","J","K","L","M","N","O","P","Q","R",
      "S","T","U","V","W","X","Y","Z","[","\\","]","^","_","GRAVE","a","b",
      "c","d","e","f","g","h","i","j","k","l","m","n","o","p","q","r","s",
      "t","u","v","w","x","y","z","{","|","}","~">>

\* U+0080 to U+00FF: the i-th is the character of code 127 + i.
Latin1Supplement ==
    <<"","","","","","","","","","","","","","","","","",
      "","","","","","","","","","","","","","",""," ","¡",
      "¢","£","¤","¥","¦","§","¨","©","ª","«","¬","­","®","¯","°","±","²",
      "³","´","µ","¶","·","¸","¹","º","»","¼","½","¾","¿","À","Á","Â","Ã",
      "Ä","Å","Æ","Ç","È","É","Ê","Ë","Ì","Í","Î","Ï","Ð","Ñ","Ò","Ó","Ô",
      "Õ","Ö","×","Ø","Ù","Ú","Û","Ü","Ý","Þ","ß","à","á","â","ã","ä","å",
      "æ","ç","è","é","ê","ë","ì","í","î","ï","ð","ñ","ò","ó","ô","õ","ö",
      "÷","ø","ù","ú","û","ü","ý","þ","ÿ">>

HexUpper ==
    <<"0","1","2","3","4","5","6","7","8","9","A","B","C","D","E","F">>

HexLower ==
    <<"0","1","2","3","4","5","6","7","8","9","a","b","c","d","e","f">>

\* What the model leaves undefined: evaluating it is an error.
NotModelled == CHOOSE v \in {} : TRUE

\* The code point of a character of the alphabet.
CodePoint(c) ==
    IF c = "NUL" THEN 0
    ELSE IF \E i \in 1..31 : C0Control[i] = c
    THEN CHOOSE i \in 1..31 : C0Control[i] = c
    ELSE IF \E i \in 1..95 : AsciiPrintable[i] = c
    THEN 31 + (CHOOSE i \in 1..95 : AsciiPrintable[i] = c)
    ELSE IF c = "" THEN 127
    ELSE IF \E i \in 1..128 : Latin1Supplement[i] = c
    THEN 127 + (CHOOSE i \in 1..128 : Latin1Supplement[i] = c)
    ELSE IF c = " " THEN 5760
    ELSE IF \E i \in 1..16 : WideSpaces[i] = c
    THEN WideSpaceCodes[CHOOSE i \in 1..16 : WideSpaces[i] = c]
    ELSE IF c = "U+0178" THEN 376
    ELSE IF c = "U+039C" THEN 924
    ELSE IF c = "U+03BC" THEN 956
    ELSE NotModelled

\* The character of a byte below 80.
ByteChar(b) ==
    IF b = 0 THEN "NUL"
    ELSE IF b < 32 THEN C0Control[b]
    ELSE IF b < 127 THEN AsciiPrintable[b - 31]
    ELSE IF b = 127 THEN ""
    ELSE NotModelled

HexVal(c) == CHOOSE v \in 0..15 : HexUpper[v + 1] = c \/ HexLower[v + 1] = c

AsciiDigit == {"0","1","2","3","4","5","6","7","8","9"}

AsciiAlpha == {Upper[i] : i \in 1..26} \cup {Lower[i] : i \in 1..26}

\* The part of s in front of the first character of the set stop.
RECURSIVE TakeUntil(_, _)
TakeUntil(s, stop) ==
    IF Len(s) = 0 \/ s[1] \in stop THEN << >>
    ELSE << s[1] >> \o TakeUntil(Tail(s), stop)

\* str::split(sep) and slice::split: the parts between the separators, at
\* least one.
RECURSIVE split(_, _)
split(s, sep) ==
    IF \E i \in 1..Len(s) : s[i] = sep
    THEN LET i == CHOOSE k \in 1..Len(s) :
                      s[k] = sep /\ \A j \in 1..(k - 1) : s[j] # sep
         IN  << SubSeq(s, 1, i - 1) >> \o split(SubSeq(s, i + 1, Len(s)), sep)
    ELSE << s >>

\* The sequences of a sequence, one after the other.
RECURSIVE concat(_)
concat(seqs) ==
    IF Len(seqs) = 0 THEN << >> ELSE seqs[1] \o concat(Tail(seqs))

\* The UTF-8 bytes of a code point.
utf8_encode(cp) ==
    IF cp < 128 THEN << cp >>
    ELSE IF cp < 2048 THEN << 192 + (cp \div 64), 128 + (cp % 64) >>
    ELSE IF cp < 65536
    THEN << 224 + (cp \div 4096), 128 + ((cp \div 64) % 64), 128 + (cp % 64) >>
    ELSE << 240 + (cp \div 262144), 128 + ((cp \div 4096) % 64),
            128 + ((cp \div 64) % 64), 128 + (cp % 64) >>

\* str::as_bytes: the UTF-8 bytes of a text.
as_bytes(s) == concat([i \in 1..Len(s) |-> utf8_encode(CodePoint(s[i]))])

\* The text of bytes below 80.
ascii_text(bytes) == [i \in 1..Len(bytes) |-> ByteChar(bytes[i])]

\* The bytes "0" to "9", "A" to "F" and "a" to "f", and their values.
is_hex_byte(b) == b \in (48..57) \cup (65..70) \cup (97..102)

hex_byte_value(b) ==
    IF b <= 57 THEN b - 48 ELSE IF b <= 70 THEN b - 55 ELSE b - 87

\* percent_encoding::percent_decode: "%" and two hex digits give a byte.
RECURSIVE percent_decode(_)
percent_decode(bytes) ==
    IF Len(bytes) = 0 THEN << >>
    ELSE IF /\ Len(bytes) >= 3
            /\ bytes[1] = 37
            /\ is_hex_byte(bytes[2])
            /\ is_hex_byte(bytes[3])
    THEN << 16 * hex_byte_value(bytes[2]) + hex_byte_value(bytes[3]) >>
         \o percent_decode(SubSeq(bytes, 4, Len(bytes)))
    ELSE << bytes[1] >> \o percent_decode(Tail(bytes))

\* A byte as "%XX".
percent_encode_byte(b) ==
    << "%", HexUpper[(b \div 16) + 1], HexUpper[(b % 16) + 1] >>

\* The UTF-8 bytes of a character, each as "%XX".
percent_encode_char(c) ==
    concat([i \in 1..Len(utf8_encode(CodePoint(c))) |->
               percent_encode_byte(utf8_encode(CodePoint(c))[i])])

\* The bytes that may follow the first byte of a UTF-8 sequence of three
\* or four bytes.
utf8_second(lead) ==
    IF lead = 224 THEN 160..191
    ELSE IF lead = 237 THEN 128..159
    ELSE IF lead = 240 THEN 144..191
    ELSE IF lead = 244 THEN 128..143
    ELSE 128..191

utf8_continues(bytes, i, n) ==
    /\ i + n <= Len(bytes)
    /\ bytes[i + 1] \in utf8_second(bytes[i])
    /\ \A j \in 2..n : bytes[i + j] \in 128..191

\* The code points of bytes from the i-th on, as idna reads them: a byte
\* that is not part of a UTF-8 sequence gives U+FFFD.
RECURSIVE utf8_chars(_, _)
utf8_chars(bytes, i) ==
    IF i > Len(bytes) THEN << >>
    ELSE IF bytes[i] < 128 THEN << bytes[i] >> \o utf8_chars(bytes, i + 1)
    ELSE IF bytes[i] \in 194..223 /\ utf8_continues(bytes, i, 1)
    THEN << (bytes[i] - 192) * 64 + (bytes[i + 1] - 128) >>
         \o utf8_chars(bytes, i + 2)
    ELSE IF bytes[i] \in 224..239 /\ utf8_continues(bytes, i, 2)
    THEN << (bytes[i] - 224) * 4096 + (bytes[i + 1] - 128) * 64
            + (bytes[i + 2] - 128) >>
         \o utf8_chars(bytes, i + 3)
    ELSE IF bytes[i] \in 240..244 /\ utf8_continues(bytes, i, 3)
    THEN << (bytes[i] - 240) * 262144 + (bytes[i + 1] - 128) * 4096
            + (bytes[i + 2] - 128) * 64 + (bytes[i + 3] - 128) >>
         \o utf8_chars(bytes, i + 4)
    ELSE << 65533 >> \o utf8_chars(bytes, i + 1)

\* IdnaMappingTable of UTS 46 as the mapping without the transitional
\* processing and without UseSTD3ASCIIRules reads it, the rows one after
\* the other, three entries each: the first code point of a range, its
\* status, and the place in Uts46Mappings of what it maps to.  V valid,
\* M mapped, I ignored, X disallowed; U a code point whose status the
\* versions of the data from 15.0 to 17.0 do not agree on, or that
\* Unicode 15.0 has not assigned.
Uts46Table ==
    <<0,"V",0, 65,"M",1, 66,"M",3, 67,"M",5, 68,"M",7, 69,"M",9, 70,"M",11,
      71,"M",13, 72,"M",15, 73,"M",17, 74,"M",19, 75,"M",21, 76,"M",23,
      77,"M",25, 78,"M",27, 79,"M",29, 80,"M",31, 81,"M",33, 82,"M",35,
      83,"M",37, 84,"M",39, 85,"M",41, 86,"M",43, 87,"M",45, 88,"M",47,
      89,"M",49, 90,"M",51, 91,"V",0, 128,"X",0, 160,"M",53, 161,"V",0,
      168,"M",55, 169,"V",0, 170,"M",1, 171,"V",0, 173,"I",0, 174,"V",0,
      175,"M",58, 176,"V",0, 178,"M",61, 179,"M",63, 180,"M",65, 181,"M",68,
      182,"V",0, 184,"M",70, 185,"M",73, 186,"M",29, 187,"V",0, 188,"M",75,
      189,"M",79, 190,"M",83, 191,"V",0, 192,"M",87, 193,"M",89, 194,"M",91,
      195,"M",93, 196,"M",95, 197,"M",97, 198,"M",99, 199,"M",101,
      200,"M",103, 201,"M",105, 202,"M",107, 203,"M",109, 204,"M",111,
      205,"M",113, 206,"M",115, 207,"M",117, 208,"M",119, 209,"M",121,
      210,"M",123, 211,"M",125, 212,"M",127, 213,"M",129, 214,"M",131,
      215,"V",0, 216,"M",133, 217,"M",135, 218,"M",137, 219,"M",139,
      220,"M",141, 221,"M",143, 222,"M",145, 223,"V",0, 256,"M",147,
      257,"V",0, 258,"M",149, 259,"V",0, 260,"M",151, 261,"V",0,
      262,"M",153, 263,"V",0, 264,"M",155, 265,"V",0, 266,"M",157,
      267,"V",0, 268,"M",159, 269,"V",0, 270,"M",161, 271,"V",0,
      272,"M",163, 273,"V",0, 274,"M",165, 275,"V",0, 276,"M",167,
      277,"V",0, 278,"M",169, 279,"V",0, 280,"M",171, 281,"V",0,
      282,"M",173, 283,"V",0, 284,"M",175, 285,"V",0, 286,"M",177,
      287,"V",0, 288,"M",179, 289,"V",0, 290,"M",181, 291,"V",0,
      292,"M",183, 293,"V",0, 294,"M",185, 295,"V",0, 296,"M",187,
      297,"V",0, 298,"M",189, 299,"V",0, 300,"M",191, 301,"V",0,
      302,"M",193, 303,"V",0, 304,"M",195, 305,"V",0, 306,"M",198,
      308,"M",201, 309,"V",0, 310,"M",203, 311,"V",0, 313,"M",205,
      314,"V",0, 315,"M",207, 316,"V",0, 317,"M",209, 318,"V",0,
      319,"M",211, 321,"M",214, 322,"V",0, 323,"M",216, 324,"V",0,
      325,"M",218, 326,"V",0, 327,"M",220, 328,"V",0, 329,"M",222,
      330,"M",225, 331,"V",0, 332,"M",227, 333,"V",0, 334,"M",229,
      335,"V",0, 336,"M",231, 337,"V",0, 338,"M",233, 339,"V",0,
      340,"M",235, 341,"V",0, 342,"M",237, 343,"V",0, 344,"M",239,
      345,"V",0, 346,"M",241, 347,"V",0, 348,"M",243, 349,"V",0,
      350,"M",245, 351,"V",0, 352,"M",247, 353,"V",0, 354,"M",249,
      355,"V",0, 356,"M",251, 357,"V",0, 358,"M",253, 359,"V",0,
      360,"M",255, 361,"V",0, 362,"M",257, 363,"V",0, 364,"M",259,
      365,"V",0, 366,"M",261, 367,"V",0, 368,"M",263, 369,"V",0,
      370,"M",265, 371,"V",0, 372,"M",267, 373,"V",0, 374,"M",269,
      375,"V",0, 376,"M",271, 377,"M",273, 378,"V",0, 379,"M",275,
      380,"V",0, 381,"M",277, 382,"V",0, 383,"M",37, 384,"V",0, 385,"M",279,
      386,"M",281, 387,"V",0, 388,"M",283, 389,"V",0, 390,"M",285,
      391,"M",287, 392,"V",0, 393,"M",289, 394,"M",291, 395,"M",293,
      396,"V",0, 398,"M",295, 399,"M",297, 400,"M",299, 401,"M",301,
      402,"V",0, 403,"M",303, 404,"M",305, 405,"V",0, 406,"M",307,
      407,"M",309, 408,"M",311, 409,"V",0, 412,"M",313, 413,"M",315,
      414,"V",0, 415,"M",317, 416,"M",319, 417,"V",0, 418,"M",321,
      419,"V",0, 420,"M",323, 421,"V",0, 422,"M",325, 423,"M",327,
      424,"V",0, 425,"M",329, 426,"V",0, 428,"M",331, 429,"V",0,
      430,"M",333, 431,"M",335, 432,"V",0, 433,"M",337, 434,"M",339,
      435,"M",341, 436,"V",0, 437,"M",343, 438,"V",0, 439,"M",345,
      440,"M",347, 441,"V",0, 444,"M",349, 445,"V",0, 452,"M",351,
      455,"M",354, 458,"M",357, 461,"M",360, 462,"V",0, 463,"M",362,
      464,"V",0, 465,"M",364, 466,"V",0, 467,"M",366, 468,"V",0,
      469,"M",368, 470,"V",0, 471,"M",370, 472,"V",0, 473,"M",372,
      474,"V",0, 475,"M",374, 476,"V",0, 478,"M",376, 479,"V",0,
      480,"M",378, 481,"V",0, 482,"M",380, 483,"V",0, 484,"M",382,
      485,"V",0, 486,"M",384, 487,"V",0, 488,"M",386, 489,"V",0,
      490,"M",388, 491,"V",0, 492,"M",390, 493,"V",0, 494,"M",392,
      495,"V",0, 497,"M",394, 500,"M",397, 501,"V",0, 502,"M",399,
      503,"M",401, 504,"M",403, 505,"V",0, 506,"M",405, 507,"V",0,
      508,"M",407, 509,"V",0, 510,"M",409, 511,"V",0, 512,"M",411,
      513,"V",0, 514,"M",413, 515,"V",0, 516,"M",415, 517,"V",0,
      518,"M",417, 519,"V",0, 520,"M",419, 521,"V",0, 522,"M",421,
      523,"V",0, 524,"M",423, 525,"V",0, 526,"M",425, 527,"V",0,
      528,"M",427, 529,"V",0, 530,"M",429, 531,"V",0, 532,"M",431,
      533,"V",0, 534,"M",433, 535,"V",0, 536,"M",435, 537,"V",0,
      538,"M",437, 539,"V",0, 540,"M",439, 541,"V",0, 542,"M",441,
      543,"V",0, 544,"M",443, 545,"V",0, 546,"M",445, 547,"V",0,
      548,"M",447, 549,"V",0, 550,"M",449, 551,"V",0, 552,"M",451,
      553,"V",0, 554,"M",453, 555,"V",0, 556,"M",455, 557,"V",0,
      558,"M",457, 559,"V",0, 560,"M",459, 561,"V",0, 562,"M",461,
      563,"V",0, 570,"M",463, 571,"M",465, 572,"V",0, 573,"M",467,
      574,"M",469, 575,"V",0, 577,"M",471, 578,"V",0, 579,"M",473,
      580,"M",475, 581,"M",477, 582,"M",479, 583,"V",0, 584,"M",481,
      585,"V",0, 586,"M",483, 587,"V",0, 588,"M",485, 589,"V",0,
      590,"M",487, 591,"V",0, 688,"M",15, 689,"M",489, 690,"M",19,
      691,"M",35, 692,"M",491, 693,"M",493, 694,"M",495, 695,"M",45,
      696,"M",49, 697,"V",0, 728,"M",497, 729,"M",500, 730,"M",503,
      731,"M",506, 732,"M",509, 733,"M",512, 734,"V",0, 736,"M",305,
      737,"M",23, 738,"M",37, 739,"M",47, 740,"M",515, 741,"V",0,
      832,"M",517, 833,"M",519, 834,"V",0, 835,"M",521, 836,"M",523,
      837,"M",526, 838,"V",0, 847,"I",0, 848,"V",0, 880,"M",528, 881,"V",0,
      882,"M",530, 883,"V",0, 884,"M",532, 885,"V",0, 886,"M",534,
      887,"V",0, 888,"U",0, 890,"M",536, 891,"V",0, 894,"M",539,
      895,"M",541, 896,"U",0, 900,"M",65, 901,"M",543, 902,"M",547,
      903,"M",549, 904,"M",551, 905,"M",553, 906,"M",555, 907,"U",0,
      908,"M",557, 909,"U",0, 910,"M",559, 911,"M",561, 912,"V",0,
      913,"M",563, 914,"M",565, 915,"M",567, 916,"M",569, 917,"M",571,
      918,"M",573, 919,"M",575, 920,"M",577, 921,"M",526, 922,"M",579,
      923,"M",581, 924,"M",68, 925,"M",583, 926,"M",585, 927,"M",587,
      928,"M",589, 929,"M",591, 930,"U",0, 931,"M",593, 932,"M",595,
      933,"M",597, 934,"M",599, 935,"M",601, 936,"M",603, 937,"M",605,
      938,"M",607, 939,"M",609, 940,"V",0, 975,"M",611, 976,"M",565,
      977,"M",577, 978,"M",597, 979,"M",559, 980,"M",609, 981,"M",599,
      982,"M",589, 983,"V",0, 984,"M",613, 985,"V",0, 986,"M",615,
      987,"V",0, 988,"M",617, 989,"V",0, 990,"M",619, 991,"V",0,
      992,"M",621, 993,"V",0, 994,"M",623, 995,"V",0, 996,"M",625,
      997,"V",0, 998,"M",627, 999,"V",0, 1000,"M",629, 1001,"V",0,
      1002,"M",631, 1003,"V",0, 1004,"M",633, 1005,"V",0, 1006,"M",635,
      1007,"V",0, 1008,"M",579, 1009,"M",591, 1010,"M",593, 1011,"V",0,
      1012,"M",577, 1013,"M",571, 1014,"V",0, 1015,"M",637, 1016,"V",0,
      1017,"M",593, 1018,"M",639, 1019,"V",0, 1021,"M",641, 1022,"M",643,
      1023,"M",645, 1024,"M",647, 1025,"M",649, 1026,"M",651, 1027,"M",653,
      1028,"M",655, 1029,"M",657, 1030,"M",659, 1031,"M",661, 1032,"M",663,
      1033,"M",665, 1034,"M",667, 1035,"M",669, 1036,"M",671, 1037,"M",673,
      1038,"M",675, 1039,"M",677, 1040,"M",679, 1041,"M",681, 1042,"M",683,
      1043,"M",685, 1044,"M",687, 1045,"M",689, 1046,"M",691, 1047,"M",693,
      1048,"M",695, 1049,"M",697, 1050,"M",699, 1051,"M",701, 1052,"M",703,
      1053,"M",705, 1054,"M",707, 1055,"M",709, 1056,"M",711, 1057,"M",713,
      1058,"M",715, 1059,"M",717, 1060,"M",719, 1061,"M",721, 1062,"M",723,
      1063,"M",725, 1064,"M",727, 1065,"M",729, 1066,"M",731, 1067,"M",733,
      1068,"M",735, 1069,"M",737, 1070,"M",739, 1071,"M",741, 1072,"V",0,
      1120,"M",743, 1121,"V",0, 1122,"M",745, 1123,"V",0, 1124,"M",747,
      1125,"V",0, 1126,"M",749, 1127,"V",0, 1128,"M",751, 1129,"V",0,
      1130,"M",753, 1131,"V",0, 1132,"M",755, 1133,"V",0, 1134,"M",757,
      1135,"V",0, 1136,"M",759, 1137,"V",0, 1138,"M",761, 1139,"V",0,
      1140,"M",763, 1141,"V",0, 1142,"M",765, 1143,"V",0, 1144,"M",767,
      1145,"V",0, 1146,"M",769, 1147,"V",0, 1148,"M",771, 1149,"V",0,
      1150,"M",773, 1151,"V",0, 1152,"M",775, 1153,"V",0, 1162,"M",777,
      1163,"V",0, 1164,"M",779, 1165,"V",0, 1166,"M",781, 1167,"V",0,
      1168,"M",783, 1169,"V",0, 1170,"M",785, 1171,"V",0, 1172,"M",787,
      1173,"V",0, 1174,"M",789, 1175,"V",0, 1176,"M",791, 1177,"V",0,
      1178,"M",793, 1179,"V",0, 1180,"M",795, 1181,"V",0, 1182,"M",797,
      1183,"V",0, 1184,"M",799, 1185,"V",0, 1186,"M",801, 1187,"V",0,
      1188,"M",803, 1189,"V",0, 1190,"M",805, 1191,"V",0, 1192,"M",807,
      1193,"V",0, 1194,"M",809, 1195,"V",0, 1196,"M",811, 1197,"V",0,
      1198,"M",813, 1199,"V",0, 1200,"M",815, 1201,"V",0, 1202,"M",817,
      1203,"V",0, 1204,"M",819, 1205,"V",0, 1206,"M",821, 1207,"V",0,
      1208,"M",823, 1209,"V",0, 1210,"M",825, 1211,"V",0, 1212,"M",827,
      1213,"V",0, 1214,"M",829, 1215,"V",0, 1216,"U",0, 1217,"M",831,
      1218,"V",0, 1219,"M",833, 1220,"V",0, 1221,"M",835, 1222,"V",0,
      1223,"M",837, 1224,"V",0, 1225,"M",839, 1226,"V",0, 1227,"M",841,
      1228,"V",0, 1229,"M",843, 1230,"V",0, 1232,"M",845, 1233,"V",0,
      1234,"M",847, 1235,"V",0, 1236,"M",849, 1237,"V",0, 1238,"M",851,
      1239,"V",0, 1240,"M",853, 1241,"V",0, 1242,"M",855, 1243,"V",0,
      1244,"M",857, 1245,"V",0, 1246,"M",859, 1247,"V",0, 1248,"M",861,
      1249,"V",0, 1250,"M",863, 1251,"V",0, 1252,"M",865, 1253,"V",0,
      1254,"M",867, 1255,"V",0, 1256,"M",869, 1257,"V",0, 1258,"M",871,
      1259,"V",0, 1260,"M",873, 1261,"V",0, 1262,"M",875, 1263,"V",0,
      1264,"M",877, 1265,"V",0, 1266,"M",879, 1267,"V",0, 1268,"M",881,
      1269,"V",0, 1270,"M",883, 1271,"V",0, 1272,"M",885, 1273,"V",0,
      1274,"M",887, 1275,"V",0, 1276,"M",889, 1277,"V",0, 1278,"M",891,
      1279,"V",0, 1280,"M",893, 1281,"V",0, 1282,"M",895, 1283,"V",0,
      1284,"M",897, 1285,"V",0, 1286,"M",899, 1287,"V",0, 1288,"M",901,
      1289,"V",0, 1290,"M",903, 1291,"V",0, 1292,"M",905, 1293,"V",0,
      1294,"M",907, 1295,"V",0, 1296,"M",909, 1297,"V",0, 1298,"M",911,
      1299,"V",0, 1300,"M",913, 1301,"V",0, 1302,"M",915, 1303,"V",0,
      1304,"M",917, 1305,"V",0, 1306,"M",919, 1307,"V",0, 1308,"M",921,
      1309,"V",0, 1310,"M",923, 1311,"V",0, 1312,"M",925, 1313,"V",0,
      1314,"M",927, 1315,"V",0, 1316,"M",929, 1317,"V",0, 1318,"M",931,
      1319,"V",0, 1320,"M",933, 1321,"V",0, 1322,"M",935, 1323,"V",0,
      1324,"M",937, 1325,"V",0, 1326,"M",939, 1327,"V",0, 1328,"U",0,
      1329,"M",941, 1330,"M",943, 1331,"M",945, 1332,"M",947, 1333,"M",949,
      1334,"M",951, 1335,"M",953, 1336,"M",955, 1337,"M",957, 1338,"M",959,
      1339,"M",961, 1340,"M",963, 1341,"M",965, 1342,"M",967, 1343,"M",969,
      1344,"M",971, 1345,"M",973, 1346,"M",975, 1347,"M",977, 1348,"M",979,
      1349,"M",981, 1350,"M",983, 1351,"M",985, 1352,"M",987, 1353,"M",989,
      1354,"M",991, 1355,"M",993, 1356,"M",995, 1357,"M",997, 1358,"M",999,
      1359,"M",1001, 1360,"M",1003, 1361,"M",1005, 1362,"M",1007,
      1363,"M",1009, 1364,"M",1011, 1365,"M",1013, 1366,"M",1015,
      1367,"U",0, 1369,"V",0, 1415,"M",1017, 1416,"V",0, 1419,"U",0,
      1421,"V",0, 1424,"U",0, 1425,"V",0, 1480,"U",0, 1488,"V",0,
      1515,"U",0, 1519,"V",0, 1525,"U",0, 1536,"X",0, 1542,"V",0,
      1564,"X",0, 1565,"V",0, 1653,"M",1020, 1654,"M",1023, 1655,"M",1026,
      1656,"M",1029, 1657,"V",0, 1757,"X",0, 1758,"V",0, 1806,"U",0,
      1807,"X",0, 1808,"V",0, 1867,"U",0, 1869,"V",0, 1970,"U",0,
      1984,"V",0, 2043,"U",0, 2045,"V",0, 2094,"U",0, 2096,"V",0,
      2111,"U",0, 2112,"V",0, 2140,"U",0, 2142,"V",0, 2143,"U",0,
      2144,"V",0, 2155,"U",0, 2160,"V",0, 2191,"U",0, 2192,"X",0,
      2194,"U",0, 2200,"V",0, 2274,"X",0, 2275,"V",0, 2392,"M",1032,
      2393,"M",1035, 2394,"M",1038, 2395,"M",1041, 2396,"M",1044,
      2397,"M",1047, 2398,"M",1050, 2399,"M",1053, 2400,"V",0, 2436,"U",0,
      2437,"V",0, 2445,"U",0, 2447,"V",0, 2449,"U",0, 2451,"V",0,
      2473,"U",0, 2474,"V",0, 2481,"U",0, 2482,"V",0, 2483,"U",0,
      2486,"V",0, 2490,"U",0, 2492,"V",0, 2501,"U",0, 2503,"V",0,
      2505,"U",0, 2507,"V",0, 2511,"U",0, 2519,"V",0, 2520,"U",0,
      2524,"M",1056, 2525,"M",1059, 2526,"U",0, 2527,"M",1062, 2528,"V",0,
      2532,"U",0, 2534,"V",0, 2559,"U",0, 2561,"V",0, 2564,"U",0,
      2565,"V",0, 2571,"U",0, 2575,"V",0, 2577,"U",0, 2579,"V",0,
      2601,"U",0, 2602,"V",0, 2609,"U",0, 2610,"V",0, 2611,"M",1065,
      2612,"U",0, 2613,"V",0, 2614,"M",1068, 2615,"U",0, 2616,"V",0,
      2618,"U",0, 2620,"V",0, 2621,"U",0, 2622,"V",0, 2627,"U",0,
      2631,"V",0, 2633,"U",0, 2635,"V",0, 2638,"U",0, 2641,"V",0,
      2642,"U",0, 2649,"M",1071, 2650,"M",1074, 2651,"M",1077, 2652,"V",0,
      2653,"U",0, 2654,"M",1080, 2655,"U",0, 2662,"V",0, 2679,"U",0,
      2689,"V",0, 2692,"U",0, 2693,"V",0, 2702,"U",0, 2703,"V",0,
      2706,"U",0, 2707,"V",0, 2729,"U",0, 2730,"V",0, 2737,"U",0,
      2738,"V",0, 2740,"U",0, 2741,"V",0, 2746,"U",0, 2748,"V",0,
      2758,"U",0, 2759,"V",0, 2762,"U",0, 2763,"V",0, 2766,"U",0,
      2768,"V",0, 2769,"U",0, 2784,"V",0, 2788,"U",0, 2790,"V",0,
      2802,"U",0, 2809,"V",0, 2816,"U",0, 2817,"V",0, 2820,"U",0,
      2821,"V",0, 2829,"U",0, 2831,"V",0, 2833,"U",0, 2835,"V",0,
      2857,"U",0, 2858,"V",0, 2865,"U",0, 2866,"V",0, 2868,"U",0,
      2869,"V",0, 2874,"U",0, 2876,"V",0, 2885,"U",0, 2887,"V",0,
      2889,"U",0, 2891,"V",0, 2894,"U",0, 2901,"V",0, 2904,"U",0,
      2908,"M",1083, 2909,"M",1086, 2910,"U",0, 2911,"V",0, 2916,"U",0,
      2918,"V",0, 2936,"U",0, 2946,"V",0, 2948,"U",0, 2949,"V",0,
      2955,"U",0, 2958,"V",0, 2961,"U",0, 2962,"V",0, 2966,"U",0,
      2969,"V",0, 2971,"U",0, 2972,"V",0, 2973,"U",0, 2974,"V",0,
      2976,"U",0, 2979,"V",0, 2981,"U",0, 2984,"V",0, 2987,"U",0,
      2990,"V",0, 3002,"U",0, 3006,"V",0, 3011,"U",0, 3014,"V",0,
      3017,"U",0, 3018,"V",0, 3022,"U",0, 3024,"V",0, 3025,"U",0,
      3031,"V",0, 3032,"U",0, 3046,"V",0, 3067,"U",0, 3072,"V",0,
      3085,"U",0, 3086,"V",0, 3089,"U",0, 3090,"V",0, 3113,"U",0,
      3114,"V",0, 3130,"U",0, 3132,"V",0, 3141,"U",0, 3142,"V",0,
      3145,"U",0, 3146,"V",0, 3150,"U",0, 3157,"V",0, 3159,"U",0,
      3160,"V",0, 3163,"U",0, 3165,"V",0, 3166,"U",0, 3168,"V",0,
      3172,"U",0, 3174,"V",0, 3184,"U",0, 3191,"V",0, 3213,"U",0,
      3214,"V",0, 3217,"U",0, 3218,"V",0, 3241,"U",0, 3242,"V",0,
      3252,"U",0, 3253,"V",0, 3258,"U",0, 3260,"V",0, 3269,"U",0,
      3270,"V",0, 3273,"U",0, 3274,"V",0, 3278,"U",0, 3285,"V",0,
      3287,"U",0, 3293,"V",0, 3295,"U",0, 3296,"V",0, 3300,"U",0,
      3302,"V",0, 3312,"U",0, 3313,"V",0, 3316,"U",0, 3328,"V",0,
      3341,"U",0, 3342,"V",0, 3345,"U",0, 3346,"V",0, 3397,"U",0,
      3398,"V",0, 3401,"U",0, 3402,"V",0, 3408,"U",0, 3412,"V",0,
      3428,"U",0, 3430,"V",0, 3456,"U",0, 3457,"V",0, 3460,"U",0,
      3461,"V",0, 3479,"U",0, 3482,"V",0, 3506,"U",0, 3507,"V",0,
      3516,"U",0, 3517,"V",0, 3518,"U",0, 3520,"V",0, 3527,"U",0,
      3530,"V",0, 3531,"U",0, 3535,"V",0, 3541,"U",0, 3542,"V",0,
      3543,"U",0, 3544,"V",0, 3552,"U",0, 3558,"V",0, 3568,"U",0,
      3570,"V",0, 3573,"U",0, 3585,"V",0, 3635,"M",1089, 3636,"V",0,
      3643,"U",0, 3647,"V",0, 3676,"U",0, 3713,"V",0, 3715,"U",0,
      3716,"V",0, 3717,"U",0, 3718,"V",0, 3723,"U",0, 3724,"V",0,
      3748,"U",0, 3749,"V",0, 3750,"U",0, 3751,"V",0, 3763,"M",1092,
      3764,"V",0, 3774,"U",0, 3776,"V",0, 3781,"U",0, 3782,"V",0,
      3783,"U",0, 3784,"V",0, 3791,"U",0, 3792,"V",0, 3802,"U",0,
      3804,"M",1095, 3805,"M",1098, 3806,"V",0, 3808,"U",0, 3840,"V",0,
      3852,"M",1101, 3853,"V",0, 3907,"M",1103, 3908,"V",0, 3912,"U",0,
      3913,"V",0, 3917,"M",1106, 3918,"V",0, 3922,"M",1109, 3923,"V",0,
      3927,"M",1112, 3928,"V",0, 3932,"M",1115, 3933,"V",0, 3945,"M",1118,
      3946,"V",0, 3949,"U",0, 3953,"V",0, 3955,"M",1121, 3956,"V",0,
      3957,"M",1124, 3958,"M",1127, 3959,"M",1130, 3960,"M",1134,
      3961,"M",1137, 3962,"V",0, 3969,"M",1141, 3970,"V",0, 3987,"M",1144,
      3988,"V",0, 3992,"U",0, 3993,"V",0, 3997,"M",1147, 3998,"V",0,
      4002,"M",1150, 4003,"V",0, 4007,"M",1153, 4008,"V",0, 4012,"M",1156,
      4013,"V",0, 4025,"M",1159, 4026,"V",0, 4029,"U",0, 4030,"V",0,
      4045,"U",0, 4046,"V",0, 4059,"U",0, 4096,"V",0, 4256,"U",0,
      4295,"M",1162, 4296,"U",0, 4301,"M",1164, 4302,"U",0, 4304,"V",0,
      4348,"M",1166, 4349,"V",0, 4447,"U",0, 4449,"V",0, 4681,"U",0,
      4682,"V",0, 4686,"U",0, 4688,"V",0, 4695,"U",0, 4696,"V",0,
      4697,"U",0, 4698,"V",0, 4702,"U",0, 4704,"V",0, 4745,"U",0,
      4746,"V",0, 4750,"U",0, 4752,"V",0, 4785,"U",0, 4786,"V",0,
      4790,"U",0, 4792,"V",0, 4799,"U",0, 4800,"V",0, 4801,"U",0,
      4802,"V",0, 4806,"U",0, 4808,"V",0, 4823,"U",0, 4824,"V",0,
      4881,"U",0, 4882,"V",0, 4886,"U",0, 4888,"V",0, 4955,"U",0,
      4957,"V",0, 4989,"U",0, 4992,"V",0, 5018,"U",0, 5024,"V",0,
      5110,"U",0, 5112,"M",1168, 5113,"M",1170, 5114,"M",1172,
      5115,"M",1174, 5116,"M",1176, 5117,"M",1178, 5118,"U",0, 5120,"V",0,
      5760,"X",0, 5761,"V",0, 5789,"U",0, 5792,"V",0, 5881,"U",0,
      5888,"V",0, 5910,"U",0, 5919,"V",0, 5943,"U",0, 5952,"V",0,
      5972,"U",0, 5984,"V",0, 5997,"U",0, 5998,"V",0, 6001,"U",0,
      6002,"V",0, 6004,"U",0, 6016,"V",0, 6068,"U",0, 6070,"V",0,
      6110,"U",0, 6112,"V",0, 6122,"U",0, 6128,"V",0, 6138,"U",0,
      6144,"V",0, 6150,"U",0, 6151,"V",0, 6155,"I",0, 6158,"U",0,
      6159,"I",0, 6160,"V",0, 6170,"U",0, 6176,"V",0, 6265,"U",0,
      6272,"V",0, 6315,"U",0, 6320,"V",0, 6390,"U",0, 6400,"V",0,
      6431,"U",0, 6432,"V",0, 6444,"U",0, 6448,"V",0, 6460,"U",0,
      6464,"V",0, 6465,"U",0, 6468,"V",0, 6510,"U",0, 6512,"V",0,
      6517,"U",0, 6528,"V",0, 6572,"U",0, 6576,"V",0, 6602,"U",0,
      6608,"V",0, 6619,"U",0, 6622,"V",0, 6684,"U",0, 6686,"V",0,
      6751,"U",0, 6752,"V",0, 6781,"U",0, 6783,"V",0, 6794,"U",0,
      6800,"V",0, 6810,"U",0, 6816,"V",0, 6830,"U",0, 6832,"V",0,
      6863,"U",0, 6912,"V",0, 6989,"U",0, 6992,"V",0, 7039,"U",0,
      7040,"V",0, 7156,"U",0, 7164,"V",0, 7224,"U",0, 7227,"V",0,
      7242,"U",0, 7245,"V",0, 7296,"M",683, 7297,"M",687, 7298,"M",707,
      7299,"M",713, 7300,"M",715, 7302,"M",731, 7303,"M",745, 7304,"M",1180,
      7305,"U",0, 7312,"M",1182, 7313,"M",1184, 7314,"M",1186,
      7315,"M",1188, 7316,"M",1190, 7317,"M",1192, 7318,"M",1194,
      7319,"M",1196, 7320,"M",1198, 7321,"M",1200, 7322,"M",1202,
      7323,"M",1204, 7324,"M",1166, 7325,"M",1206, 7326,"M",1208,
      7327,"M",1210, 7328,"M",1212, 7329,"M",1214, 7330,"M",1216,
      7331,"M",1218, 7332,"M",1220, 7333,"M",1222, 7334,"M",1224,
      7335,"M",1226, 7336,"M",1228, 7337,"M",1230, 7338,"M",1232,
      7339,"M",1234, 7340,"M",1236, 7341,"M",1238, 7342,"M",1240,
      7343,"M",1242, 7344,"M",1244, 7345,"M",1246, 7346,"M",1248,
      7347,"M",1250, 7348,"M",1252, 7349,"M",1254, 7350,"M",1256,
      7351,"M",1258, 7352,"M",1260, 7353,"M",1262, 7354,"M",1264,
      7355,"U",0, 7357,"M",1266, 7358,"M",1268, 7359,"M",1270, 7360,"V",0,
      7368,"U",0, 7376,"V",0, 7419,"U",0, 7424,"V",0, 7468,"M",1,
      7469,"M",99, 7470,"M",3, 7471,"V",0, 7472,"M",7, 7473,"M",9,
      7474,"M",295, 7475,"M",13, 7476,"M",15, 7477,"M",17, 7478,"M",19,
      7479,"M",21, 7480,"M",23, 7481,"M",25, 7482,"M",27, 7483,"V",0,
      7484,"M",29, 7485,"M",445, 7486,"M",31, 7487,"M",35, 7488,"M",39,
      7489,"M",41, 7490,"M",45, 7491,"M",1, 7492,"M",1272, 7493,"M",1274,
      7494,"M",1276, 7495,"M",3, 7496,"M",7, 7497,"M",9, 7498,"M",297,
      7499,"M",299, 7500,"M",1278, 7501,"M",13, 7502,"V",0, 7503,"M",21,
      7504,"M",25, 7505,"M",225, 7506,"M",29, 7507,"M",285, 7508,"M",1280,
      7509,"M",1282, 7510,"M",31, 7511,"M",39, 7512,"M",41, 7513,"M",1284,
      7514,"M",313, 7515,"M",43, 7516,"M",1286, 7517,"M",565, 7518,"M",567,
      7519,"M",569, 7520,"M",599, 7521,"M",601, 7522,"M",17, 7523,"M",35,
      7524,"M",41, 7525,"M",43, 7526,"M",565, 7527,"M",567, 7528,"M",591,
      7529,"M",599, 7530,"M",601, 7531,"V",0, 7544,"M",705, 7545,"V",0,
      7579,"M",1288, 7580,"M",5, 7581,"M",1290, 7582,"M",119, 7583,"M",1278,
      7584,"M",11, 7585,"M",1292, 7586,"M",1294, 7587,"M",1296,
      7588,"M",309, 7589,"M",307, 7590,"M",1298, 7591,"M",1300,
      7592,"M",1302, 7593,"M",1304, 7594,"M",1306, 7595,"M",1308,
      7596,"M",1310, 7597,"M",1312, 7598,"M",315, 7599,"M",1314,
      7600,"M",1316, 7601,"M",317, 7602,"M",1318, 7603,"M",1320,
      7604,"M",329, 7605,"M",1322, 7606,"M",475, 7607,"M",337,
      7608,"M",1324, 7609,"M",339, 7610,"M",477, 7611,"M",51, 7612,"M",1326,
      7613,"M",1328, 7614,"M",345, 7615,"M",577, 7616,"V",0, 7680,"M",1330,
      7681,"V",0, 7682,"M",1332, 7683,"V",0, 7684,"M",1334, 7685,"V",0,
      7686,"M",1336, 7687,"V",0, 7688,"M",1338, 7689,"V",0, 7690,"M",1340,
      7691,"V",0, 7692,"M",1342, 7693,"V",0, 7694,"M",1344, 7695,"V",0,
      7696,"M",1346, 7697,"V",0, 7698,"M",1348, 7699,"V",0, 7700,"M",1350,
      7701,"V",0, 7702,"M",1352, 7703,"V",0, 7704,"M",1354, 7705,"V",0,
      7706,"M",1356, 7707,"V",0, 7708,"M",1358, 7709,"V",0, 7710,"M",1360,
      7711,"V",0, 7712,"M",1362, 7713,"V",0, 7714,"M",1364, 7715,"V",0,
      7716,"M",1366, 7717,"V",0, 7718,"M",1368, 7719,"V",0, 7720,"M",1370,
      7721,"V",0, 7722,"M",1372, 7723,"V",0, 7724,"M",1374, 7725,"V",0,
      7726,"M",1376, 7727,"V",0, 7728,"M",1378, 7729,"V",0, 7730,"M",1380,
      7731,"V",0, 7732,"M",1382, 7733,"V",0, 7734,"M",1384, 7735,"V",0,
      7736,"M",1386, 7737,"V",0, 7738,"M",1388, 7739,"V",0, 7740,"M",1390,
      7741,"V",0, 7742,"M",1392, 7743,"V",0, 7744,"M",1394, 7745,"V",0,
      7746,"M",1396, 7747,"V",0, 7748,"M",1398, 7749,"V",0, 7750,"M",1400,
      7751,"V",0, 7752,"M",1402, 7753,"V",0, 7754,"M",1404, 7755,"V",0,
      7756,"M",1406, 7757,"V",0, 7758,"M",1408, 7759,"V",0, 7760,"M",1410,
      7761,"V",0, 7762,"M",1412, 7763,"V",0, 7764,"M",1414, 7765,"V",0,
      7766,"M",1416, 7767,"V",0, 7768,"M",1418, 7769,"V",0, 7770,"M",1420,
      7771,"V",0, 7772,"M",1422, 7773,"V",0, 7774,"M",1424, 7775,"V",0,
      7776,"M",1426, 7777,"V",0, 7778,"M",1428, 7779,"V",0, 7780,"M",1430,
      7781,"V",0, 7782,"M",1432, 7783,"V",0, 7784,"M",1434, 7785,"V",0,
      7786,"M",1436, 7787,"V",0, 7788,"M",1438, 7789,"V",0, 7790,"M",1440,
      7791,"V",0, 7792,"M",1442, 7793,"V",0, 7794,"M",1444, 7795,"V",0,
      7796,"M",1446, 7797,"V",0, 7798,"M",1448, 7799,"V",0, 7800,"M",1450,
      7801,"V",0, 7802,"M",1452, 7803,"V",0, 7804,"M",1454, 7805,"V",0,
      7806,"M",1456, 7807,"V",0, 7808,"M",1458, 7809,"V",0, 7810,"M",1460,
      7811,"V",0, 7812,"M",1462, 7813,"V",0, 7814,"M",1464, 7815,"V",0,
      7816,"M",1466, 7817,"V",0, 7818,"M",1468, 7819,"V",0, 7820,"M",1470,
      7821,"V",0, 7822,"M",1472, 7823,"V",0, 7824,"M",1474, 7825,"V",0,
      7826,"M",1476, 7827,"V",0, 7828,"M",1478, 7829,"V",0, 7834,"M",1480,
      7835,"M",1426, 7836,"V",0, 7838,"U",0, 7839,"V",0, 7840,"M",1483,
      7841,"V",0, 7842,"M",1485, 7843,"V",0, 7844,"M",1487, 7845,"V",0,
      7846,"M",1489, 7847,"V",0, 7848,"M",1491, 7849,"V",0, 7850,"M",1493,
      7851,"V",0, 7852,"M",1495, 7853,"V",0, 7854,"M",1497, 7855,"V",0,
      7856,"M",1499, 7857,"V",0, 7858,"M",1501, 7859,"V",0, 7860,"M",1503,
      7861,"V",0, 7862,"M",1505, 7863,"V",0, 7864,"M",1507, 7865,"V",0,
      7866,"M",1509, 7867,"V",0, 7868,"M",1511, 7869,"V",0, 7870,"M",1513,
      7871,"V",0, 7872,"M",1515, 7873,"V",0, 7874,"M",1517, 7875,"V",0,
      7876,"M",1519, 7877,"V",0, 7878,"M",1521, 7879,"V",0, 7880,"M",1523,
      7881,"V",0, 7882,"M",1525, 7883,"V",0, 7884,"M",1527, 7885,"V",0,
      7886,"M",1529, 7887,"V",0, 7888,"M",1531, 7889,"V",0, 7890,"M",1533,
      7891,"V",0, 7892,"M",1535, 7893,"V",0, 7894,"M",1537, 7895,"V",0,
      7896,"M",1539, 7897,"V",0, 7898,"M",1541, 7899,"V",0, 7900,"M",1543,
      7901,"V",0, 7902,"M",1545, 7903,"V",0, 7904,"M",1547, 7905,"V",0,
      7906,"M",1549, 7907,"V",0, 7908,"M",1551, 7909,"V",0, 7910,"M",1553,
      7911,"V",0, 7912,"M",1555, 7913,"V",0, 7914,"M",1557, 7915,"V",0,
      7916,"M",1559, 7917,"V",0, 7918,"M",1561, 7919,"V",0, 7920,"M",1563,
      7921,"V",0, 7922,"M",1565, 7923,"V",0, 7924,"M",1567, 7925,"V",0,
      7926,"M",1569, 7927,"V",0, 7928,"M",1571, 7929,"V",0, 7930,"M",1573,
      7931,"V",0, 7932,"M",1575, 7933,"V",0, 7934,"M",1577, 7935,"V",0,
      7944,"M",1579, 7945,"M",1581, 7946,"M",1583, 7947,"M",1585,
      7948,"M",1587, 7949,"M",1589, 7950,"M",1591, 7951,"M",1593,
      7952,"V",0, 7958,"U",0, 7960,"M",1595, 7961,"M",1597, 7962,"M",1599,
      7963,"M",1601, 7964,"M",1603, 7965,"M",1605, 7966,"U",0, 7968,"V",0,
      7976,"M",1607, 7977,"M",1609, 7978,"M",1611, 7979,"M",1613,
      7980,"M",1615, 7981,"M",1617, 7982,"M",1619, 7983,"M",1621,
      7984,"V",0, 7992,"M",1623, 7993,"M",1625, 7994,"M",1627,
      7995,"M",1629, 7996,"M",1631, 7997,"M",1633, 7998,"M",1635,
      7999,"M",1637, 8000,"V",0, 8006,"U",0, 8008,"M",1639, 8009,"M",1641,
      8010,"M",1643, 8011,"M",1645, 8012,"M",1647, 8013,"M",1649,
      8014,"U",0, 8016,"V",0, 8024,"U",0, 8025,"M",1651, 8026,"U",0,
      8027,"M",1653, 8028,"U",0, 8029,"M",1655, 8030,"U",0, 8031,"M",1657,
      8032,"V",0, 8040,"M",1659, 8041,"M",1661, 8042,"M",1663,
      8043,"M",1665, 8044,"M",1667, 8045,"M",1669, 8046,"M",1671,
      8047,"M",1673, 8048,"V",0, 8049,"M",547, 8050,"V",0, 8051,"M",551,
      8052,"V",0, 8053,"M",553, 8054,"V",0, 8055,"M",555, 8056,"V",0,
      8057,"M",557, 8058,"V",0, 8059,"M",559, 8060,"V",0, 8061,"M",561,
      8062,"U",0, 8064,"M",1675, 8065,"M",1678, 8066,"M",1681,
      8067,"M",1684, 8068,"M",1687, 8069,"M",1690, 8070,"M",1693,
      8071,"M",1696, 8072,"M",1675, 8073,"M",1678, 8074,"M",1681,
      8075,"M",1684, 8076,"M",1687, 8077,"M",1690, 8078,"M",1693,
      8079,"M",1696, 8080,"M",1699, 8081,"M",1702, 8082,"M",1705,
      8083,"M",1708, 8084,"M",1711, 8085,"M",1714, 8086,"M",1717,
      8087,"M",1720, 8088,"M",1699, 8089,"M",1702, 8090,"M",1705,
      8091,"M",1708, 8092,"M",1711, 8093,"M",1714, 8094,"M",1717,
      8095,"M",1720, 8096,"M",1723, 8097,"M",1726, 8098,"M",1729,
      8099,"M",1732, 8100,"M",1735, 8101,"M",1738, 8102,"M",1741,
      8103,"M",1744, 8104,"M",1723, 8105,"M",1726, 8106,"M",1729,
      8107,"M",1732, 8108,"M",1735, 8109,"M",1738, 8110,"M",1741,
      8111,"M",1744, 8112,"V",0, 8114,"M",1747, 8115,"M",1750,
      8116,"M",1753, 8117,"U",0, 8118,"V",0, 8119,"M",1756, 8120,"M",1759,
      8121,"M",1761, 8122,"M",1763, 8123,"M",547, 8124,"M",1750,
      8125,"M",1765, 8126,"M",526, 8127,"M",1765, 8128,"M",1768,
      8129,"M",1771, 8130,"M",1775, 8131,"M",1778, 8132,"M",1781,
      8133,"U",0, 8134,"V",0, 8135,"M",1784, 8136,"M",1787, 8137,"M",551,
      8138,"M",1789, 8139,"M",553, 8140,"M",1778, 8141,"M",1791,
      8142,"M",1795, 8143,"M",1799, 8144,"V",0, 8147,"M",1803, 8148,"U",0,
      8150,"V",0, 8152,"M",1805, 8153,"M",1807, 8154,"M",1809, 8155,"M",555,
      8156,"U",0, 8157,"M",1811, 8158,"M",1815, 8159,"M",1819, 8160,"V",0,
      8163,"M",1823, 8164,"V",0, 8168,"M",1825, 8169,"M",1827,
      8170,"M",1829, 8171,"M",559, 8172,"M",1831, 8173,"M",1833,
      8174,"M",543, 8175,"M",1837, 8176,"U",0, 8178,"M",1839, 8179,"M",1842,
      8180,"M",1845, 8181,"U",0, 8182,"V",0, 8183,"M",1848, 8184,"M",1851,
      8185,"M",557, 8186,"M",1853, 8187,"M",561, 8188,"M",1842, 8189,"M",65,
      8190,"M",1855, 8191,"U",0, 8192,"M",53, 8203,"I",0, 8204,"V",0,
      8206,"X",0, 8208,"V",0, 8209,"M",1858, 8210,"V",0, 8215,"M",1860,
      8216,"V",0, 8228,"X",0, 8231,"V",0, 8232,"X",0, 8239,"M",53,
      8240,"V",0, 8243,"M",1863, 8244,"M",1866, 8245,"V",0, 8246,"M",1870,
      8247,"M",1873, 8248,"V",0, 8252,"M",1877, 8253,"V",0, 8254,"M",1880,
      8255,"V",0, 8263,"M",1883, 8264,"M",1886, 8265,"M",1889, 8266,"V",0,
      8279,"M",1892, 8280,"V",0, 8287,"M",53, 8288,"I",0, 8289,"U",0,
      8292,"I",0, 8293,"U",0, 8294,"X",0, 8298,"U",0, 8304,"M",1897,
      8305,"M",17, 8306,"U",0, 8308,"M",1899, 8309,"M",1901, 8310,"M",1903,
      8311,"M",1905, 8312,"M",1907, 8313,"M",1909, 8314,"M",1911,
      8315,"M",1913, 8316,"M",1915, 8317,"M",1917, 8318,"M",1919,
      8319,"M",27, 8320,"M",1897, 8321,"M",73, 8322,"M",61, 8323,"M",63,
      8324,"M",1899, 8325,"M",1901, 8326,"M",1903, 8327,"M",1905,
      8328,"M",1907, 8329,"M",1909, 8330,"M",1911, 8331,"M",1913,
      8332,"M",1915, 8333,"M",1917, 8334,"M",1919, 8335,"U",0, 8336,"M",1,
      8337,"M",9, 8338,"M",29, 8339,"M",47, 8340,"M",297, 8341,"M",15,
      8342,"M",21, 8343,"M",23, 8344,"M",25, 8345,"M",27, 8346,"M",31,
      8347,"M",37, 8348,"M",39, 8349,"U",0, 8352,"V",0, 8360,"M",1921,
      8361,"V",0, 8385,"U",0, 8400,"V",0, 8433,"U",0, 8448,"M",1924,
      8449,"M",1928, 8450,"M",5, 8451,"M",1932, 8452,"V",0, 8453,"M",1935,
      8454,"M",1939, 8455,"M",299, 8456,"V",0, 8457,"M",1943, 8458,"M",13,
      8459,"M",15, 8463,"M",185, 8464,"M",17, 8466,"M",23, 8468,"V",0,
      8469,"M",27, 8470,"M",1946, 8471,"V",0, 8473,"M",31, 8474,"M",33,
      8475,"M",35, 8478,"V",0, 8480,"M",1949, 8481,"M",1952, 8482,"M",1956,
      8483,"V",0, 8484,"M",51, 8485,"V",0, 8486,"M",605, 8487,"V",0,
      8488,"M",51, 8489,"V",0, 8490,"M",21, 8491,"M",97, 8492,"M",3,
      8493,"M",5, 8494,"V",0, 8495,"M",9, 8497,"M",11, 8498,"U",0,
      8499,"M",25, 8500,"M",29, 8501,"M",1959, 8502,"M",1961, 8503,"M",1963,
      8504,"M",1965, 8505,"M",17, 8506,"V",0, 8507,"M",1967, 8508,"M",589,
      8509,"M",567, 8511,"M",589, 8512,"M",1971, 8513,"V",0, 8517,"M",7,
      8519,"M",9, 8520,"M",17, 8521,"M",19, 8522,"V",0, 8528,"M",1973,
      8529,"M",1977, 8530,"M",1981, 8531,"M",1986, 8532,"M",1990,
      8533,"M",1994, 8534,"M",1998, 8535,"M",2002, 8536,"M",2006,
      8537,"M",2010, 8538,"M",2014, 8539,"M",2018, 8540,"M",2022,
      8541,"M",2026, 8542,"M",2030, 8543,"M",2034, 8544,"M",17,
      8545,"M",2037, 8546,"M",2040, 8547,"M",2044, 8548,"M",43,
      8549,"M",2047, 8550,"M",2050, 8551,"M",2054, 8552,"M",2059,
      8553,"M",47, 8554,"M",2062, 8555,"M",2065, 8556,"M",23, 8557,"M",5,
      8558,"M",7, 8559,"M",25, 8560,"M",17, 8561,"M",2037, 8562,"M",2040,
      8563,"M",2044, 8564,"M",43, 8565,"M",2047, 8566,"M",2050,
      8567,"M",2054, 8568,"M",2059, 8569,"M",47, 8570,"M",2062,
      8571,"M",2065, 8572,"M",23, 8573,"M",5, 8574,"M",7, 8575,"M",25,
      8576,"V",0, 8579,"U",0, 8580,"V",0, 8585,"M",2069, 8586,"V",0,
      8588,"U",0, 8592,"V",0, 8748,"M",2073, 8749,"M",2076, 8750,"V",0,
      8751,"M",2080, 8752,"M",2083, 8753,"V",0, 9001,"M",2087,
      9002,"M",2089, 9003,"V",0, 9255,"U",0, 9280,"V",0, 9291,"U",0,
      9312,"M",73, 9313,"M",61, 9314,"M",63, 9315,"M",1899, 9316,"M",1901,
      9317,"M",1903, 9318,"M",1905, 9319,"M",1907, 9320,"M",1909,
      9321,"M",2091, 9322,"M",2094, 9323,"M",2097, 9324,"M",2100,
      9325,"M",2103, 9326,"M",2106, 9327,"M",2109, 9328,"M",2112,
      9329,"M",2115, 9330,"M",2118, 9331,"M",2121, 9332,"M",2124,
      9333,"M",2128, 9334,"M",2132, 9335,"M",2136, 9336,"M",2140,
      9337,"M",2144, 9338,"M",2148, 9339,"M",2152, 9340,"M",2156,
      9341,"M",2160, 9342,"M",2165, 9343,"M",2170, 9344,"M",2175,
      9345,"M",2180, 9346,"M",2185, 9347,"M",2190, 9348,"M",2195,
      9349,"M",2200, 9350,"M",2205, 9351,"M",2210, 9352,"X",0,
      9372,"M",2215, 9373,"M",2219, 9374,"M",2223, 9375,"M",2227,
      9376,"M",2231, 9377,"M",2235, 9378,"M",2239, 9379,"M",2243,
      9380,"M",2247, 9381,"M",2251, 9382,"M",2255, 9383,"M",2259,
      9384,"M",2263, 9385,"M",2267, 9386,"M",2271, 9387,"M",2275,
      9388,"M",2279, 9389,"M",2283, 9390,"M",2287, 9391,"M",2291,
      9392,"M",2295, 9393,"M",2299, 9394,"M",2303, 9395,"M",2307,
      9396,"M",2311, 9397,"M",2315, 9398,"M",1, 9399,"M",3, 9400,"M",5,
      9401,"M",7, 9402,"M",9, 9403,"M",11, 9404,"M",13, 9405,"M",15,
      9406,"M",17, 9407,"M",19, 9408,"M",21, 9409,"M",23, 9410,"M",25,
      9411,"M",27, 9412,"M",29, 9413,"M",31, 9414,"M",33, 9415,"M",35,
      9416,"M",37, 9417,"M",39, 9418,"M",41, 9419,"M",43, 9420,"M",45,
      9421,"M",47, 9422,"M",49, 9423,"M",51, 9424,"M",1, 9425,"M",3,
      9426,"M",5, 9427,"M",7, 9428,"M",9, 9429,"M",11, 9430,"M",13,
      9431,"M",15, 9432,"M",17, 9433,"M",19, 9434,"M",21, 9435,"M",23,
      9436,"M",25, 9437,"M",27, 9438,"M",29, 9439,"M",31, 9440,"M",33,
      9441,"M",35, 9442,"M",37, 9443,"M",39, 9444,"M",41, 9445,"M",43,
      9446,"M",45, 9447,"M",47, 9448,"M",49, 9449,"M",51, 9450,"M",1897,
      9451,"V",0, 10764,"M",2319, 10765,"V",0, 10868,"M",2324,
      10869,"M",2328, 10870,"M",2331, 10871,"V",0, 10972,"M",2335,
      10973,"V",0, 11124,"U",0, 11126,"V",0, 11158,"U",0, 11159,"V",0,
      11264,"M",2338, 11265,"M",2340, 11266,"M",2342, 11267,"M",2344,
      11268,"M",2346, 11269,"M",2348, 11270,"M",2350, 11271,"M",2352,
      11272,"M",2354, 11273,"M",2356, 11274,"M",2358, 11275,"M",2360,
      11276,"M",2362, 11277,"M",2364, 11278,"M",2366, 11279,"M",2368,
      11280,"M",2370, 11281,"M",2372, 11282,"M",2374, 11283,"M",2376,
      11284,"M",2378, 11285,"M",2380, 11286,"M",2382, 11287,"M",2384,
      11288,"M",2386, 11289,"M",2388, 11290,"M",2390, 11291,"M",2392,
      11292,"M",2394, 11293,"M",2396, 11294,"M",2398, 11295,"M",2400,
      11296,"M",2402, 11297,"M",2404, 11298,"M",2406, 11299,"M",2408,
      11300,"M",2410, 11301,"M",2412, 11302,"M",2414, 11303,"M",2416,
      11304,"M",2418, 11305,"M",2420, 11306,"M",2422, 11307,"M",2424,
      11308,"M",2426, 11309,"M",2428, 11310,"M",2430, 11311,"M",2432,
      11312,"V",0, 11360,"M",2434, 11361,"V",0, 11362,"M",2436,
      11363,"M",2438, 11364,"M",2440, 11365,"V",0, 11367,"M",2442,
      11368,"V",0, 11369,"M",2444, 11370,"V",0, 11371,"M",2446, 11372,"V",0,
      11373,"M",1274, 11374,"M",1310, 11375,"M",1272, 11376,"M",1288,
      11377,"V",0, 11378,"M",2448, 11379,"V",0, 11381,"M",2450, 11382,"V",0,
      11388,"M",19, 11389,"M",43, 11390,"M",2452, 11391,"M",2454,
      11392,"M",2456, 11393,"V",0, 11394,"M",2458, 11395,"V",0,
      11396,"M",2460, 11397,"V",0, 11398,"M",2462, 11399,"V",0,
      11400,"M",2464, 11401,"V",0, 11402,"M",2466, 11403,"V",0,
      11404,"M",2468, 11405,"V",0, 11406,"M",2470, 11407,"V",0,
      11408,"M",2472, 11409,"V",0, 11410,"M",2474, 11411,"V",0,
      11412,"M",2476, 11413,"V",0, 11414,"M",2478, 11415,"V",0,
      11416,"M",2480, 11417,"V",0, 11418,"M",2482, 11419,"V",0,
      11420,"M",2484, 11421,"V",0, 11422,"M",2486, 11423,"V",0,
      11424,"M",2488, 11425,"V",0, 11426,"M",2490, 11427,"V",0,
      11428,"M",2492, 11429,"V",0, 11430,"M",2494, 11431,"V",0,
      11432,"M",2496, 11433,"V",0, 11434,"M",2498, 11435,"V",0,
      11436,"M",2500, 11437,"V",0, 11438,"M",2502, 11439,"V",0,
      11440,"M",2504, 11441,"V",0, 11442,"M",2506, 11443,"V",0,
      11444,"M",2508, 11445,"V",0, 11446,"M",2510, 11447,"V",0,
      11448,"M",2512, 11449,"V",0, 11450,"M",2514, 11451,"V",0,
      11452,"M",2516, 11453,"V",0, 11454,"M",2518, 11455,"V",0,
      11456,"M",2520, 11457,"V",0, 11458,"M",2522, 11459,"V",0,
      11460,"M",2524, 11461,"V",0, 11462,"M",2526, 11463,"V",0,
      11464,"M",2528, 11465,"V",0, 11466,"M",2530, 11467,"V",0,
      11468,"M",2532, 11469,"V",0, 11470,"M",2534, 11471,"V",0,
      11472,"M",2536, 11473,"V",0, 11474,"M",2538, 11475,"V",0,
      11476,"M",2540, 11477,"V",0, 11478,"M",2542, 11479,"V",0,
      11480,"M",2544, 11481,"V",0, 11482,"M",2546, 11483,"V",0,
      11484,"M",2548, 11485,"V",0, 11486,"M",2550, 11487,"V",0,
      11488,"M",2552, 11489,"V",0, 11490,"M",2554, 11491,"V",0,
      11499,"M",2556, 11500,"V",0, 11501,"M",2558, 11502,"V",0,
      11506,"M",2560, 11507,"V",0, 11508,"U",0, 11513,"V",0, 11558,"U",0,
      11559,"V",0, 11560,"U",0, 11565,"V",0, 11566,"U",0, 11568,"V",0,
      11624,"U",0, 11631,"M",2562, 11632,"V",0, 11633,"U",0, 11647,"V",0,
      11671,"U",0, 11680,"V",0, 11687,"U",0, 11688,"V",0, 11695,"U",0,
      11696,"V",0, 11703,"U",0, 11704,"V",0, 11711,"U",0, 11712,"V",0,
      11719,"U",0, 11720,"V",0, 11727,"U",0, 11728,"V",0, 11735,"U",0,
      11736,"V",0, 11743,"U",0, 11744,"V",0, 11870,"U",0, 11904,"V",0,
      11930,"U",0, 11931,"V",0, 11935,"M",2564, 11936,"V",0, 12019,"M",2566,
      12020,"U",0, 12032,"M",2568, 12033,"M",2570, 12034,"M",2572,
      12035,"M",2574, 12036,"M",2576, 12037,"M",2578, 12038,"M",2580,
      12039,"M",2582, 12040,"M",2584, 12041,"M",2586, 12042,"M",2588,
      12043,"M",2590, 12044,"M",2592, 12045,"M",2594, 12046,"M",2596,
      12047,"M",2598, 12048,"M",2600, 12049,"M",2602, 12050,"M",2604,
      12051,"M",2606, 12052,"M",2608, 12053,"M",2610, 12054,"M",2612,
      12055,"M",2614, 12056,"M",2616, 12057,"M",2618, 12058,"M",2620,
      12059,"M",2622, 12060,"M",2624, 12061,"M",2626, 12062,"M",2628,
      12063,"M",2630, 12064,"M",2632, 12065,"M",2634, 12066,"M",2636,
      12067,"M",2638, 12068,"M",2640, 12069,"M",2642, 12070,"M",2644,
      12071,"M",2646, 12072,"M",2648, 12073,"M",2650, 12074,"M",2652,
      12075,"M",2654, 12076,"M",2656, 12077,"M",2658, 12078,"M",2660,
      12079,"M",2662, 12080,"M",2664, 12081,"M",2666, 12082,"M",2668,
      12083,"M",2670, 12084,"M",2672, 12085,"M",2674, 12086,"M",2676,
      12087,"M",2678, 12088,"M",2680, 12089,"M",2682, 12090,"M",2684,
      12091,"M",2686, 12092,"M",2688, 12093,"M",2690, 12094,"M",2692,
      12095,"M",2694, 12096,"M",2696, 12097,"M",2698, 12098,"M",2700,
      12099,"M",2702, 12100,"M",2704, 12101,"M",2706, 12102,"M",2708,
      12103,"M",2710, 12104,"M",2712, 12105,"M",2714, 12106,"M",2716,
      12107,"M",2718, 12108,"M",2720, 12109,"M",2722, 12110,"M",2724,
      12111,"M",2726, 12112,"M",2728, 12113,"M",2730, 12114,"M",2732,
      12115,"M",2734, 12116,"M",2736, 12117,"M",2738, 12118,"M",2740,
      12119,"M",2742, 12120,"M",2744, 12121,"M",2746, 12122,"M",2748,
      12123,"M",2750, 12124,"M",2752, 12125,"M",2754, 12126,"M",2756,
      12127,"M",2758, 12128,"M",2760, 12129,"M",2762, 12130,"M",2764,
      12131,"M",2766, 12132,"M",2768, 12133,"M",2770, 12134,"M",2772,
      12135,"M",2774, 12136,"M",2776, 12137,"M",2778, 12138,"M",2780,
      12139,"M",2782, 12140,"M",2784, 12141,"M",2786, 12142,"M",2788,
      12143,"M",2790, 12144,"M",2792, 12145,"M",2794, 12146,"M",2796,
      12147,"M",2798, 12148,"M",2800, 12149,"M",2802, 12150,"M",2804,
      12151,"M",2806, 12152,"M",2808, 12153,"M",2810, 12154,"M",2812,
      12155,"M",2814, 12156,"M",2816, 12157,"M",2818, 12158,"M",2820,
      12159,"M",2822, 12160,"M",2824, 12161,"M",2826, 12162,"M",2828,
      12163,"M",2830, 12164,"M",2832, 12165,"M",2834, 12166,"M",2836,
      12167,"M",2838, 12168,"M",2840, 12169,"M",2842, 12170,"M",2844,
      12171,"M",2846, 12172,"M",2848, 12173,"M",2850, 12174,"M",2852,
      12175,"M",2854, 12176,"M",2856, 12177,"M",2858, 12178,"M",2860,
      12179,"M",2862, 12180,"M",2864, 12181,"M",2866, 12182,"M",2868,
      12183,"M",2870, 12184,"M",2872, 12185,"M",2874, 12186,"M",2876,
      12187,"M",2878, 12188,"M",2880, 12189,"M",2882, 12190,"M",2884,
      12191,"M",2886, 12192,"M",2888, 12193,"M",2890, 12194,"M",2892,
      12195,"M",2894, 12196,"M",2896, 12197,"M",2898, 12198,"M",2900,
      12199,"M",2902, 12200,"M",2904, 12201,"M",2906, 12202,"M",2908,
      12203,"M",2910, 12204,"M",2912, 12205,"M",2914, 12206,"M",2916,
      12207,"M",2918, 12208,"M",2920, 12209,"M",2922, 12210,"M",2924,
      12211,"M",2926, 12212,"M",2928, 12213,"M",2930, 12214,"M",2932,
      12215,"M",2934, 12216,"M",2936, 12217,"M",2938, 12218,"M",2940,
      12219,"M",2942, 12220,"M",2944, 12221,"M",2946, 12222,"M",2948,
      12223,"M",2950, 12224,"M",2952, 12225,"M",2954, 12226,"M",2956,
      12227,"M",2958, 12228,"M",2960, 12229,"M",2962, 12230,"M",2964,
      12231,"M",2966, 12232,"M",2968, 12233,"M",2970, 12234,"M",2972,
      12235,"M",2974, 12236,"M",2976, 12237,"M",2978, 12238,"M",2980,
      12239,"M",2982, 12240,"M",2984, 12241,"M",2986, 12242,"M",2988,
      12243,"M",2990, 12244,"M",2992, 12245,"M",2994, 12246,"U",0,
      12272,"X",0, 12284,"U",0, 12288,"M",53, 12289,"V",0, 12290,"M",2996,
      12291,"V",0, 12342,"M",2998, 12343,"V",0, 12344,"M",2614,
      12345,"M",3000, 12346,"M",3002, 12347,"V",0, 12352,"U",0, 12353,"V",0,
      12439,"U",0, 12441,"V",0, 12443,"M",3004, 12444,"M",3007, 12445,"V",0,
      12447,"M",3010, 12448,"V",0, 12543,"M",3013, 12544,"U",0, 12549,"V",0,
      12592,"U",0, 12593,"M",3016, 12594,"M",3018, 12595,"M",3020,
      12596,"M",3022, 12597,"M",3024, 12598,"M",3026, 12599,"M",3028,
      12600,"M",3030, 12601,"M",3032, 12602,"M",3034, 12603,"M",3036,
      12604,"M",3038, 12605,"M",3040, 12606,"M",3042, 12607,"M",3044,
      12608,"M",3046, 12609,"M",3048, 12610,"M",3050, 12611,"M",3052,
      12612,"M",3054, 12613,"M",3056, 12614,"M",3058, 12615,"M",3060,
      12616,"M",3062, 12617,"M",3064, 12618,"M",3066, 12619,"M",3068,
      12620,"M",3070, 12621,"M",3072, 12622,"M",3074, 12623,"M",3076,
      12624,"M",3078, 12625,"M",3080, 12626,"M",3082, 12627,"M",3084,
      12628,"M",3086, 12629,"M",3088, 12630,"M",3090, 12631,"M",3092,
      12632,"M",3094, 12633,"M",3096, 12634,"M",3098, 12635,"M",3100,
      12636,"M",3102, 12637,"M",3104, 12638,"M",3106, 12639,"M",3108,
      12640,"M",3110, 12641,"M",3112, 12642,"M",3114, 12643,"M",3116,
      12644,"U",0, 12645,"M",3118, 12646,"M",3120, 12647,"M",3122,
      12648,"M",3124, 12649,"M",3126, 12650,"M",3128, 12651,"M",3130,
      12652,"M",3132, 12653,"M",3134, 12654,"M",3136, 12655,"M",3138,
      12656,"M",3140, 12657,"M",3142, 12658,"M",3144, 12659,"M",3146,
      12660,"M",3148, 12661,"M",3150, 12662,"M",3152, 12663,"M",3154,
      12664,"M",3156, 12665,"M",3158, 12666,"M",3160, 12667,"M",3162,
      12668,"M",3164, 12669,"M",3166, 12670,"M",3168, 12671,"M",3170,
      12672,"M",3172, 12673,"M",3174, 12674,"M",3176, 12675,"M",3178,
      12676,"M",3180, 12677,"M",3182, 12678,"M",3184, 12679,"M",3186,
      12680,"M",3188, 12681,"M",3190, 12682,"M",3192, 12683,"M",3194,
      12684,"M",3196, 12685,"M",3198, 12686,"M",3200, 12687,"U",0,
      12688,"V",0, 12690,"M",2568, 12691,"M",2580, 12692,"M",3202,
      12693,"M",3204, 12694,"M",3206, 12695,"M",3208, 12696,"M",3210,
      12697,"M",3212, 12698,"M",2576, 12699,"M",3214, 12700,"M",3216,
      12701,"M",3218, 12702,"M",3220, 12703,"M",2584, 12704,"V",0,
      12772,"U",0, 12784,"V",0, 12800,"M",3222, 12801,"M",3226,
      12802,"M",3230, 12803,"M",3234, 12804,"M",3238, 12805,"M",3242,
      12806,"M",3246, 12807,"M",3250, 12808,"M",3254, 12809,"M",3258,
      12810,"M",3262, 12811,"M",3266, 12812,"M",3270, 12813,"M",3274,
      12814,"M",3278, 12815,"M",3282, 12816,"M",3286, 12817,"M",3290,
      12818,"M",3294, 12819,"M",3298, 12820,"M",3302, 12821,"M",3306,
      12822,"M",3310, 12823,"M",3314, 12824,"M",3318, 12825,"M",3322,
      12826,"M",3326, 12827,"M",3330, 12828,"M",3334, 12829,"M",3338,
      12830,"M",3343, 12831,"U",0, 12832,"M",3348, 12833,"M",3352,
      12834,"M",3356, 12835,"M",3360, 12836,"M",3364, 12837,"M",3368,
      12838,"M",3372, 12839,"M",3376, 12840,"M",3380, 12841,"M",3384,
      12842,"M",3388, 12843,"M",3392, 12844,"M",3396, 12845,"M",3400,
      12846,"M",3404, 12847,"M",3408, 12848,"M",3412, 12849,"M",3416,
      12850,"M",3420, 12851,"M",3424, 12852,"M",3428, 12853,"M",3432,
      12854,"M",3436, 12855,"M",3440, 12856,"M",3444, 12857,"M",3448,
      12858,"M",3452, 12859,"M",3456, 12860,"M",3460, 12861,"M",3464,
      12862,"M",3468, 12863,"M",3472, 12864,"M",3476, 12865,"M",3480,
      12866,"M",3484, 12867,"M",3488, 12868,"M",3492, 12869,"M",3494,
      12870,"M",2700, 12871,"M",3496, 12872,"V",0, 12880,"M",3498,
      12881,"M",3502, 12882,"M",3505, 12883,"M",3508, 12884,"M",3511,
      12885,"M",3514, 12886,"M",3517, 12887,"M",3520, 12888,"M",3523,
      12889,"M",3526, 12890,"M",3529, 12891,"M",3532, 12892,"M",3535,
      12893,"M",3538, 12894,"M",3541, 12895,"M",3544, 12896,"M",3016,
      12897,"M",3022, 12898,"M",3028, 12899,"M",3032, 12900,"M",3048,
      12901,"M",3050, 12902,"M",3056, 12903,"M",3060, 12904,"M",3062,
      12905,"M",3066, 12906,"M",3068, 12907,"M",3070, 12908,"M",3072,
      12909,"M",3074, 12910,"M",3547, 12911,"M",3549, 12912,"M",3551,
      12913,"M",3553, 12914,"M",3555, 12915,"M",3557, 12916,"M",3559,
      12917,"M",3561, 12918,"M",3563, 12919,"M",3565, 12920,"M",3567,
      12921,"M",3569, 12922,"M",3571, 12923,"M",3573, 12924,"M",3575,
      12925,"M",3578, 12926,"M",3581, 12927,"V",0, 12928,"M",2568,
      12929,"M",2580, 12930,"M",3202, 12931,"M",3204, 12932,"M",3583,
      12933,"M",3585, 12934,"M",3587, 12935,"M",2590, 12936,"M",3589,
      12937,"M",2614, 12938,"M",2714, 12939,"M",2738, 12940,"M",2736,
      12941,"M",2716, 12942,"M",2900, 12943,"M",2630, 12944,"M",2710,
      12945,"M",3591, 12946,"M",3593, 12947,"M",3595, 12948,"M",3597,
      12949,"M",3599, 12950,"M",3601, 12951,"M",3603, 12952,"M",3605,
      12953,"M",3607, 12954,"M",3609, 12955,"M",2642, 12956,"M",3611,
      12957,"M",3613, 12958,"M",3615, 12959,"M",3617, 12960,"M",3619,
      12961,"M",3621, 12962,"M",3623, 12963,"M",3625, 12964,"M",3206,
      12965,"M",3208, 12966,"M",3210, 12967,"M",3627, 12968,"M",3629,
      12969,"M",3631, 12970,"M",3633, 12971,"M",3635, 12972,"M",3637,
      12973,"M",3639, 12974,"M",3641, 12975,"M",3643, 12976,"M",3645,
      12977,"M",3647, 12978,"M",3650, 12979,"M",3653, 12980,"M",3656,
      12981,"M",3659, 12982,"M",3662, 12983,"M",3665, 12984,"M",3668,
      12985,"M",3671, 12986,"M",3674, 12987,"M",3677, 12988,"M",3680,
      12989,"M",3683, 12990,"M",3686, 12991,"M",3689, 12992,"M",3692,
      12993,"M",3695, 12994,"M",3698, 12995,"M",3701, 12996,"M",3704,
      12997,"M",3707, 12998,"M",3710, 12999,"M",3713, 13000,"M",3716,
      13001,"M",3719, 13002,"M",3723, 13003,"M",3727, 13004,"M",3731,
      13005,"M",3734, 13006,"M",3738, 13007,"M",3741, 13008,"M",3745,
      13009,"M",3747, 13010,"M",3749, 13011,"M",3751, 13012,"M",3753,
      13013,"M",3755, 13014,"M",3757, 13015,"M",3759, 13016,"M",3761,
      13017,"M",3763, 13018,"M",3765, 13019,"M",3767, 13020,"M",3769,
      13021,"M",3771, 13022,"M",3773, 13023,"M",3775, 13024,"M",3777,
      13025,"M",3779, 13026,"M",3781, 13027,"M",3783, 13028,"M",3785,
      13029,"M",3787, 13030,"M",3789, 13031,"M",3791, 13032,"M",3793,
      13033,"M",3795, 13034,"M",3797, 13035,"M",3799, 13036,"M",3801,
      13037,"M",3803, 13038,"M",3805, 13039,"M",3807, 13040,"M",3809,
      13041,"M",3811, 13042,"M",3813, 13043,"M",3815, 13044,"M",3817,
      13045,"M",3819, 13046,"M",3821, 13047,"M",3823, 13048,"M",3825,
      13049,"M",3827, 13050,"M",3829, 13051,"M",3831, 13052,"M",3833,
      13053,"M",3835, 13054,"M",3837, 13055,"M",3839, 13056,"M",3842,
      13057,"M",3847, 13058,"M",3852, 13059,"M",3857, 13060,"M",3861,
      13061,"M",3866, 13062,"M",3870, 13063,"M",3874, 13064,"M",3880,
      13065,"M",3885, 13066,"M",3889, 13067,"M",3893, 13068,"M",3897,
      13069,"M",3902, 13070,"M",3907, 13071,"M",3911, 13072,"M",3915,
      13073,"M",3918, 13074,"M",3922, 13075,"M",3927, 13076,"M",3932,
      13077,"M",3935, 13078,"M",3941, 13079,"M",3948, 13080,"M",3954,
      13081,"M",3958, 13082,"M",3964, 13083,"M",3970, 13084,"M",3975,
      13085,"M",3979, 13086,"M",3983, 13087,"M",3987, 13088,"M",3992,
      13089,"M",3998, 13090,"M",4003, 13091,"M",4007, 13092,"M",4011,
      13093,"M",4015, 13094,"M",4018, 13095,"M",4021, 13096,"M",4024,
      13097,"M",4027, 13098,"M",4031, 13099,"M",4035, 13100,"M",4041,
      13101,"M",4045, 13102,"M",4050, 13103,"M",4056, 13104,"M",4060,
      13105,"M",4063, 13106,"M",4066, 13107,"M",4072, 13108,"M",4077,
      13109,"M",4083, 13110,"M",4087, 13111,"M",4093, 13112,"M",4096,
      13113,"M",4100, 13114,"M",4104, 13115,"M",4108, 13116,"M",4112,
      13117,"M",4116, 13118,"M",4121, 13119,"M",4125, 13120,"M",4128,
      13121,"M",4132, 13122,"M",4136, 13123,"M",4140, 13124,"M",4145,
      13125,"M",4149, 13126,"M",4153, 13127,"M",4157, 13128,"M",4163,
      13129,"M",4168, 13130,"M",4171, 13131,"M",4177, 13132,"M",4180,
      13133,"M",4185, 13134,"M",4190, 13135,"M",4194, 13136,"M",4198,
      13137,"M",4202, 13138,"M",4207, 13139,"M",4210, 13140,"M",4214,
      13141,"M",4219, 13142,"M",4222, 13143,"M",4228, 13144,"M",4232,
      13145,"M",4235, 13146,"M",4238, 13147,"M",4241, 13148,"M",4244,
      13149,"M",4247, 13150,"M",4250, 13151,"M",4253, 13152,"M",4256,
      13153,"M",4259, 13154,"M",4262, 13155,"M",4266, 13156,"M",4270,
      13157,"M",4274, 13158,"M",4278, 13159,"M",4282, 13160,"M",4286,
      13161,"M",4290, 13162,"M",4294, 13163,"M",4298, 13164,"M",4302,
      13165,"M",4306, 13166,"M",4310, 13167,"M",4314, 13168,"M",4318,
      13169,"M",4322, 13170,"M",4326, 13171,"M",4329, 13172,"M",4332,
      13173,"M",4336, 13174,"M",4339, 13175,"M",4342, 13176,"M",4345,
      13177,"M",4349, 13178,"M",4353, 13179,"M",4356, 13180,"M",4359,
      13181,"M",4362, 13182,"M",4365, 13183,"M",4368, 13184,"M",4373,
      13185,"M",4376, 13186,"M",4379, 13187,"M",4382, 13188,"M",4385,
      13189,"M",4388, 13190,"M",4391, 13191,"M",4394, 13192,"M",4397,
      13193,"M",4401, 13194,"M",4406, 13195,"M",4409, 13196,"M",4412,
      13197,"M",4415, 13198,"M",4418, 13199,"M",4421, 13200,"M",4424,
      13201,"M",4427, 13202,"M",4431, 13203,"M",4435, 13204,"M",4439,
      13205,"M",4443, 13206,"M",4446, 13207,"M",4449, 13208,"M",4452,
      13209,"M",4455, 13210,"M",4458, 13211,"M",4461, 13212,"M",4464,
      13213,"M",4467, 13214,"M",4470, 13215,"M",4473, 13216,"M",4477,
      13217,"M",4481, 13218,"M",4484, 13219,"M",4488, 13220,"M",4492,
      13221,"M",4496, 13222,"M",4499, 13223,"M",4503, 13224,"M",4507,
      13225,"M",4373, 13226,"M",4512, 13227,"M",4516, 13228,"M",4520,
      13229,"M",4524, 13230,"M",4528, 13231,"M",4534, 13232,"M",4541,
      13233,"M",4544, 13234,"M",4547, 13235,"M",4550, 13236,"M",4553,
      13237,"M",4556, 13238,"M",4559, 13239,"M",4562, 13240,"M",4565,
      13241,"M",4562, 13242,"M",4568, 13243,"M",4571, 13244,"M",4574,
      13245,"M",4577, 13246,"M",4580, 13247,"M",4577, 13248,"M",4583,
      13249,"M",4586, 13250,"X",0, 13251,"M",4589, 13252,"M",4592,
      13253,"M",4595, 13254,"M",4598, 13255,"X",0, 13256,"M",4603,
      13257,"M",4606, 13258,"M",4609, 13259,"M",4612, 13260,"M",4615,
      13261,"M",4618, 13262,"M",4470, 13263,"M",4621, 13264,"M",4624,
      13265,"M",4627, 13266,"M",4630, 13267,"M",4634, 13268,"M",4391,
      13269,"M",4637, 13270,"M",4641, 13271,"M",4645, 13272,"X",0,
      13273,"M",4648, 13274,"M",4652, 13275,"M",4655, 13276,"M",4658,
      13277,"M",4661, 13278,"M",4664, 13279,"M",4668, 13280,"M",4672,
      13281,"M",4675, 13282,"M",4678, 13283,"M",4681, 13284,"M",4684,
      13285,"M",4687, 13286,"M",4690, 13287,"M",4693, 13288,"M",4696,
      13289,"M",4699, 13290,"M",4703, 13291,"M",4707, 13292,"M",4711,
      13293,"M",4715, 13294,"M",4719, 13295,"M",4723, 13296,"M",4727,
      13297,"M",4731, 13298,"M",4735, 13299,"M",4739, 13300,"M",4743,
      13301,"M",4747, 13302,"M",4751, 13303,"M",4755, 13304,"M",4759,
      13305,"M",4763, 13306,"M",4767, 13307,"M",4771, 13308,"M",4775,
      13309,"M",4779, 13310,"M",4783, 13311,"M",4787, 13312,"V",0,
      42125,"U",0, 42128,"V",0, 42183,"U",0, 42192,"V",0, 42540,"U",0,
      42560,"M",4791, 42561,"V",0, 42562,"M",4793, 42563,"V",0,
      42564,"M",4795, 42565,"V",0, 42566,"M",4797, 42567,"V",0,
      42568,"M",4799, 42569,"V",0, 42570,"M",1180, 42571,"V",0,
      42572,"M",4801, 42573,"V",0, 42574,"M",4803, 42575,"V",0,
      42576,"M",4805, 42577,"V",0, 42578,"M",4807, 42579,"V",0,
      42580,"M",4809, 42581,"V",0, 42582,"M",4811, 42583,"V",0,
      42584,"M",4813, 42585,"V",0, 42586,"M",4815, 42587,"V",0,
      42588,"M",4817, 42589,"V",0, 42590,"M",4819, 42591,"V",0,
      42592,"M",4821, 42593,"V",0, 42594,"M",4823, 42595,"V",0,
      42596,"M",4825, 42597,"V",0, 42598,"M",4827, 42599,"V",0,
      42600,"M",4829, 42601,"V",0, 42602,"M",4831, 42603,"V",0,
      42604,"M",4833, 42605,"V",0, 42624,"M",4835, 42625,"V",0,
      42626,"M",4837, 42627,"V",0, 42628,"M",4839, 42629,"V",0,
      42630,"M",4841, 42631,"V",0, 42632,"M",4843, 42633,"V",0,
      42634,"M",4845, 42635,"V",0, 42636,"M",4847, 42637,"V",0,
      42638,"M",4849, 42639,"V",0, 42640,"M",4851, 42641,"V",0,
      42642,"M",4853, 42643,"V",0, 42644,"M",4855, 42645,"V",0,
      42646,"M",4857, 42647,"V",0, 42648,"M",4859, 42649,"V",0,
      42650,"M",4861, 42651,"V",0, 42652,"M",731, 42653,"M",735,
      42654,"V",0, 42744,"U",0, 42752,"V",0, 42786,"M",4863, 42787,"V",0,
      42788,"M",4865, 42789,"V",0, 42790,"M",4867, 42791,"V",0,
      42792,"M",4869, 42793,"V",0, 42794,"M",4871, 42795,"V",0,
      42796,"M",4873, 42797,"V",0, 42798,"M",4875, 42799,"V",0,
      42802,"M",4877, 42803,"V",0, 42804,"M",4879, 42805,"V",0,
      42806,"M",4881, 42807,"V",0, 42808,"M",4883, 42809,"V",0,
      42810,"M",4885, 42811,"V",0, 42812,"M",4887, 42813,"V",0,
      42814,"M",4889, 42815,"V",0, 42816,"M",4891, 42817,"V",0,
      42818,"M",4893, 42819,"V",0, 42820,"M",4895, 42821,"V",0,
      42822,"M",4897, 42823,"V",0, 42824,"M",4899, 42825,"V",0,
      42826,"M",4901, 42827,"V",0, 42828,"M",4903, 42829,"V",0,
      42830,"M",4905, 42831,"V",0, 42832,"M",4907, 42833,"V",0,
      42834,"M",4909, 42835,"V",0, 42836,"M",4911, 42837,"V",0,
      42838,"M",4913, 42839,"V",0, 42840,"M",4915, 42841,"V",0,
      42842,"M",4917, 42843,"V",0, 42844,"M",4919, 42845,"V",0,
      42846,"M",4921, 42847,"V",0, 42848,"M",4923, 42849,"V",0,
      42850,"M",4925, 42851,"V",0, 42852,"M",4927, 42853,"V",0,
      42854,"M",4929, 42855,"V",0, 42856,"M",4931, 42857,"V",0,
      42858,"M",4933, 42859,"V",0, 42860,"M",4935, 42861,"V",0,
      42862,"M",4937, 42863,"V",0, 42864,"M",4937, 42865,"V",0,
      42873,"M",4939, 42874,"V",0, 42875,"M",4941, 42876,"V",0,
      42877,"M",4943, 42878,"M",4945, 42879,"V",0, 42880,"M",4947,
      42881,"V",0, 42882,"M",4949, 42883,"V",0, 42884,"M",4951, 42885,"V",0,
      42886,"M",4953, 42887,"V",0, 42891,"M",4955, 42892,"V",0,
      42893,"M",1296, 42894,"V",0, 42896,"M",4957, 42897,"V",0,
      42898,"M",4959, 42899,"V",0, 42902,"M",4961, 42903,"V",0,
      42904,"M",4963, 42905,"V",0, 42906,"M",4965, 42907,"V",0,
      42908,"M",4967, 42909,"V",0, 42910,"M",4969, 42911,"V",0,
      42912,"M",4971, 42913,"V",0, 42914,"M",4973, 42915,"V",0,
      42916,"M",4975, 42917,"V",0, 42918,"M",4977, 42919,"V",0,
      42920,"M",4979, 42921,"V",0, 42922,"M",489, 42923,"M",1278,
      42924,"M",1294, 42925,"M",4981, 42926,"M",1298, 42927,"V",0,
      42928,"M",4983, 42929,"M",4985, 42930,"M",1302, 42931,"M",4987,
      42932,"M",4989, 42933,"V",0, 42934,"M",4991, 42935,"V",0,
      42936,"M",4993, 42937,"V",0, 42938,"M",4995, 42939,"V",0,
      42940,"M",4997, 42941,"V",0, 42942,"M",4999, 42943,"V",0,
      42944,"M",5001, 42945,"V",0, 42946,"M",5003, 42947,"V",0,
      42948,"M",5005, 42949,"M",1320, 42950,"M",5007, 42951,"M",5009,
      42952,"V",0, 42953,"M",5011, 42954,"V",0, 42955,"U",0, 42960,"M",5013,
      42961,"V",0, 42962,"U",0, 42963,"V",0, 42964,"U",0, 42965,"V",0,
      42966,"M",5015, 42967,"V",0, 42968,"M",5017, 42969,"V",0, 42970,"U",0,
      42994,"M",5, 42995,"M",11, 42996,"M",33, 42997,"M",5019, 42998,"V",0,
      43000,"M",185, 43001,"M",233, 43002,"V",0, 43053,"U",0, 43056,"V",0,
      43066,"U",0, 43072,"V",0, 43128,"U",0, 43136,"V",0, 43206,"U",0,
      43214,"V",0, 43226,"U",0, 43232,"V",0, 43348,"U",0, 43359,"V",0,
      43389,"U",0, 43392,"V",0, 43470,"U",0, 43471,"V",0, 43482,"U",0,
      43486,"V",0, 43519,"U",0, 43520,"V",0, 43575,"U",0, 43584,"V",0,
      43598,"U",0, 43600,"V",0, 43610,"U",0, 43612,"V",0, 43715,"U",0,
      43739,"V",0, 43767,"U",0, 43777,"V",0, 43783,"U",0, 43785,"V",0,
      43791,"U",0, 43793,"V",0, 43799,"U",0, 43808,"V",0, 43815,"U",0,
      43816,"V",0, 43823,"U",0, 43824,"V",0, 43868,"M",4867, 43869,"M",5021,
      43870,"M",2436, 43871,"M",5023, 43872,"V",0, 43881,"M",5025,
      43882,"V",0, 43884,"U",0, 43888,"M",5027, 43889,"M",5029,
      43890,"M",5031, 43891,"M",5033, 43892,"M",5035, 43893,"M",5037,
      43894,"M",5039, 43895,"M",5041, 43896,"M",5043, 43897,"M",5045,
      43898,"M",5047, 43899,"M",5049, 43900,"M",5051, 43901,"M",5053,
      43902,"M",5055, 43903,"M",5057, 43904,"M",5059, 43905,"M",5061,
      43906,"M",5063, 43907,"M",5065, 43908,"M",5067, 43909,"M",5069,
      43910,"M",5071, 43911,"M",5073, 43912,"M",5075, 43913,"M",5077,
      43914,"M",5079, 43915,"M",5081, 43916,"M",5083, 43917,"M",5085,
      43918,"M",5087, 43919,"M",5089, 43920,"M",5091, 43921,"M",5093,
      43922,"M",5095, 43923,"M",5097, 43924,"M",5099, 43925,"M",5101,
      43926,"M",5103, 43927,"M",5105, 43928,"M",5107, 43929,"M",5109,
      43930,"M",5111, 43931,"M",5113, 43932,"M",5115, 43933,"M",5117,
      43934,"M",5119, 43935,"M",5121, 43936,"M",5123, 43937,"M",5125,
      43938,"M",5127, 43939,"M",5129, 43940,"M",5131, 43941,"M",5133,
      43942,"M",5135, 43943,"M",5137, 43944,"M",5139, 43945,"M",5141,
      43946,"M",5143, 43947,"M",5145, 43948,"M",5147, 43949,"M",5149,
      43950,"M",5151, 43951,"M",5153, 43952,"M",5155, 43953,"M",5157,
      43954,"M",5159, 43955,"M",5161, 43956,"M",5163, 43957,"M",5165,
      43958,"M",5167, 43959,"M",5169, 43960,"M",5171, 43961,"M",5173,
      43962,"M",5175, 43963,"M",5177, 43964,"M",5179, 43965,"M",5181,
      43966,"M",5183, 43967,"M",5185, 43968,"V",0, 44014,"U",0, 44016,"V",0,
      44026,"U",0, 44032,"V",0, 55204,"U",0, 55216,"V",0, 55239,"U",0,
      55243,"V",0, 55292,"U",0, 55296,"X",0, 63744,"M",5187, 63745,"M",5189,
      63746,"M",2884, 63747,"M",5191, 63748,"M",5193, 63749,"M",5195,
      63750,"M",5197, 63751,"M",2992, 63753,"M",5199, 63754,"M",2900,
      63755,"M",5201, 63756,"M",5203, 63757,"M",5205, 63758,"M",5207,
      63759,"M",5209, 63760,"M",5211, 63761,"M",5213, 63762,"M",5215,
      63763,"M",5217, 63764,"M",5219, 63765,"M",5221, 63766,"M",5223,
      63767,"M",5225, 63768,"M",5227, 63769,"M",5229, 63770,"M",5231,
      63771,"M",5233, 63772,"M",5235, 63773,"M",5237, 63774,"M",5239,
      63775,"M",5241, 63776,"M",5243, 63777,"M",5245, 63778,"M",5247,
      63779,"M",5249, 63780,"M",5251, 63781,"M",5253, 63782,"M",5255,
      63783,"M",5257, 63784,"M",5259, 63785,"M",5261, 63786,"M",5263,
      63787,"M",5265, 63788,"M",5267, 63789,"M",5269, 63790,"M",5271,
      63791,"M",5273, 63792,"M",5275, 63793,"M",5277, 63794,"M",5279,
      63795,"M",5281, 63796,"M",2816, 63797,"M",5283, 63798,"M",5285,
      63799,"M",5287, 63800,"M",5289, 63801,"M",5291, 63802,"M",5293,
      63803,"M",5295, 63804,"M",5297, 63805,"M",5299, 63806,"M",5301,
      63807,"M",5303, 63808,"M",2962, 63809,"M",5305, 63810,"M",5307,
      63811,"M",5309, 63812,"M",5311, 63813,"M",5313, 63814,"M",5315,
      63815,"M",5317, 63816,"M",5319, 63817,"M",5321, 63818,"M",5323,
      63819,"M",5325, 63820,"M",5327, 63821,"M",5329, 63822,"M",5331,
      63823,"M",5333, 63824,"M",5335, 63825,"M",5337, 63826,"M",5339,
      63827,"M",5341, 63828,"M",5343, 63829,"M",5345, 63830,"M",5347,
      63831,"M",5349, 63832,"M",5351, 63833,"M",5353, 63834,"M",5355,
      63835,"M",5357, 63836,"M",5219, 63837,"M",5359, 63838,"M",5361,
      63839,"M",5363, 63840,"M",5365, 63841,"M",5367, 63842,"M",5369,
      63843,"M",5371, 63844,"M",5373, 63845,"M",5375, 63846,"M",5377,
      63847,"M",5379, 63848,"M",5381, 63849,"M",5383, 63850,"M",5385,
      63851,"M",5387, 63852,"M",5389, 63853,"M",5391, 63854,"M",5393,
      63855,"M",5395, 63856,"M",5397, 63857,"M",2888, 63858,"M",5399,
      63859,"M",5401, 63860,"M",5403, 63861,"M",5405, 63862,"M",5407,
      63863,"M",5409, 63864,"M",5411, 63865,"M",5413, 63866,"M",5415,
      63867,"M",5417, 63868,"M",5419, 63869,"M",5421, 63870,"M",5423,
      63871,"M",5425, 63872,"M",5427, 63873,"M",2642, 63874,"M",5429,
      63875,"M",5431, 63876,"M",5433, 63877,"M",5435, 63878,"M",5437,
      63879,"M",5439, 63880,"M",5441, 63881,"M",5443, 63882,"M",2604,
      63883,"M",5445, 63884,"M",5447, 63885,"M",5449, 63886,"M",5451,
      63887,"M",5453, 63888,"M",5455, 63889,"M",5457, 63890,"M",5459,
      63891,"M",5461, 63892,"M",5463, 63893,"M",5465, 63894,"M",5467,
      63895,"M",5469, 63896,"M",5471, 63897,"M",5473, 63898,"M",5475,
      63899,"M",5477, 63900,"M",5479, 63901,"M",5481, 63902,"M",5483,
      63903,"M",5485, 63904,"M",5487, 63905,"M",5395, 63906,"M",5489,
      63907,"M",5491, 63908,"M",5493, 63909,"M",5495, 63910,"M",5497,
      63911,"M",5499, 63912,"M",5501, 63913,"M",5503, 63914,"M",5363,
      63915,"M",5505, 63916,"M",5507, 63917,"M",5509, 63918,"M",5511,
      63919,"M",5513, 63920,"M",5515, 63921,"M",5517, 63922,"M",5519,
      63923,"M",5521, 63924,"M",5523, 63925,"M",5525, 63926,"M",5527,
      63927,"M",5529, 63928,"M",5531, 63929,"M",5533, 63930,"M",5535,
      63931,"M",5537, 63932,"M",5539, 63933,"M",5541, 63934,"M",5543,
      63935,"M",5219, 63936,"M",5545, 63937,"M",5547, 63938,"M",5549,
      63939,"M",5551, 63940,"M",2990, 63941,"M",5553, 63942,"M",5555,
      63943,"M",5557, 63944,"M",5559, 63945,"M",5561, 63946,"M",5563,
      63947,"M",5565, 63948,"M",5567, 63949,"M",5569, 63950,"M",5571,
      63951,"M",5573, 63952,"M",5575, 63953,"M",3585, 63954,"M",5577,
      63955,"M",5579, 63956,"M",5581, 63957,"M",5583, 63958,"M",5585,
      63959,"M",5587, 63960,"M",5589, 63961,"M",5591, 63962,"M",5593,
      63963,"M",5367, 63964,"M",5595, 63965,"M",5597, 63966,"M",5599,
      63967,"M",5601, 63968,"M",5603, 63969,"M",5605, 63970,"M",5607,
      63971,"M",5609, 63972,"M",5611, 63973,"M",5613, 63974,"M",5615,
      63975,"M",5617, 63976,"M",5619, 63977,"M",2898, 63978,"M",5621,
      63979,"M",5623, 63980,"M",5625, 63981,"M",5627, 63982,"M",5629,
      63983,"M",5631, 63984,"M",5633, 63985,"M",5635, 63986,"M",5637,
      63987,"M",5639, 63988,"M",5641, 63989,"M",5643, 63990,"M",5645,
      63991,"M",2800, 63992,"M",5647, 63993,"M",5649, 63994,"M",5651,
      63995,"M",5653, 63996,"M",5655, 63997,"M",5657, 63998,"M",5659,
      63999,"M",5661, 64000,"M",5663, 64001,"M",5665, 64002,"M",5667,
      64003,"M",5669, 64004,"M",5671, 64005,"M",5673, 64006,"M",5675,
      64007,"M",5677, 64008,"M",2854, 64009,"M",5679, 64010,"M",2860,
      64011,"M",5681, 64012,"M",5683, 64013,"M",5685, 64014,"V",0,
      64016,"M",5687, 64017,"V",0, 64018,"M",5689, 64019,"V",0,
      64021,"M",5691, 64022,"M",5693, 64023,"M",5695, 64024,"M",5697,
      64025,"M",5699, 64026,"M",5701, 64027,"M",5703, 64028,"M",5705,
      64029,"M",5707, 64030,"M",2814, 64031,"V",0, 64032,"M",5709,
      64033,"V",0, 64034,"M",5711, 64035,"V",0, 64037,"M",5713,
      64038,"M",5715, 64039,"V",0, 64042,"M",5717, 64043,"M",5719,
      64044,"M",5721, 64045,"M",5723, 64046,"M",5725, 64047,"M",5727,
      64048,"M",5729, 64049,"M",5731, 64050,"M",5733, 64051,"M",5735,
      64052,"M",5737, 64053,"M",5739, 64054,"M",5741, 64055,"M",5743,
      64056,"M",5745, 64057,"M",5747, 64058,"M",5749, 64059,"M",5751,
      64060,"M",2656, 64061,"M",5753, 64062,"M",5755, 64063,"M",5757,
      64064,"M",5759, 64065,"M",5761, 64066,"M",5763, 64067,"M",5765,
      64068,"M",5767, 64069,"M",5769, 64070,"M",5771, 64071,"M",5773,
      64072,"M",5775, 64073,"M",5777, 64074,"M",5779, 64075,"M",5781,
      64076,"M",3595, 64077,"M",5783, 64078,"M",5785, 64079,"M",5787,
      64080,"M",5789, 64081,"M",3603, 64082,"M",5791, 64083,"M",5793,
      64084,"M",5795, 64085,"M",5797, 64086,"M",5799, 64087,"M",5467,
      64088,"M",5801, 64089,"M",5803, 64090,"M",5805, 64091,"M",5807,
      64092,"M",5809, 64093,"M",5811, 64095,"M",5813, 64096,"M",5815,
      64097,"M",5817, 64098,"M",5819, 64099,"M",5821, 64100,"M",5823,
      64101,"M",5825, 64102,"M",5827, 64103,"M",5713, 64104,"M",5829,
      64105,"M",5831, 64106,"M",5833, 64107,"M",5835, 64108,"M",5837,
      64109,"M",5839, 64110,"U",0, 64112,"M",5841, 64113,"M",5843,
      64114,"M",5845, 64115,"M",5847, 64116,"M",5849, 64117,"M",5851,
      64118,"M",5853, 64119,"M",5855, 64120,"M",5741, 64121,"M",5857,
      64122,"M",5859, 64123,"M",5861, 64124,"M",5687, 64125,"M",5863,
      64126,"M",5865, 64127,"M",5867, 64128,"M",5869, 64129,"M",5871,
      64130,"M",5873, 64131,"M",5875, 64132,"M",5877, 64133,"M",5879,
      64134,"M",5881, 64135,"M",5883, 64136,"M",5885, 64137,"M",5757,
      64138,"M",5887, 64139,"M",5759, 64140,"M",5889, 64141,"M",5891,
      64142,"M",5893, 64143,"M",5895, 64144,"M",5897, 64145,"M",5689,
      64146,"M",5261, 64147,"M",5899, 64148,"M",5901, 64149,"M",2722,
      64150,"M",5397, 64151,"M",5563, 64152,"M",5903, 64153,"M",5905,
      64154,"M",5773, 64155,"M",5907, 64156,"M",5775, 64157,"M",5909,
      64158,"M",5911, 64159,"M",5913, 64160,"M",5693, 64161,"M",5915,
      64162,"M",5917, 64163,"M",5919, 64164,"M",5921, 64165,"M",5923,
      64166,"M",5695, 64167,"M",5925, 64168,"M",5927, 64169,"M",5929,
      64170,"M",5931, 64171,"M",5933, 64172,"M",5935, 64173,"M",5799,
      64174,"M",5937, 64175,"M",5939, 64176,"M",5467, 64177,"M",5941,
      64178,"M",5807, 64179,"M",5943, 64180,"M",5945, 64181,"M",5947,
      64182,"M",5949, 64183,"M",5951, 64184,"M",5817, 64185,"M",5953,
      64186,"M",5711, 64187,"M",5955, 64188,"M",5819, 64189,"M",5359,
      64190,"M",5957, 64191,"M",5821, 64192,"M",5959, 64193,"M",5825,
      64194,"M",5961, 64195,"M",5963, 64196,"M",5965, 64197,"M",5967,
      64198,"M",5969, 64199,"M",5829, 64200,"M",5705, 64201,"M",5971,
      64202,"M",5831, 64203,"M",5973, 64204,"M",5833, 64205,"M",5975,
      64206,"M",2992, 64207,"M",5977, 64208,"M",5979, 64209,"M",5981,
      64210,"M",5983, 64211,"M",5985, 64212,"M",5987, 64213,"M",5989,
      64214,"M",5991, 64215,"M",5993, 64216,"M",5995, 64217,"M",5997,
      64218,"U",0, 64256,"M",5999, 64257,"M",6002, 64258,"M",6005,
      64259,"M",6008, 64260,"M",6012, 64261,"M",6016, 64263,"U",0,
      64275,"M",6019, 64276,"M",6022, 64277,"M",6025, 64278,"M",6028,
      64279,"M",6031, 64280,"U",0, 64285,"M",6034, 64286,"V",0,
      64287,"M",6037, 64288,"M",6040, 64289,"M",1959, 64290,"M",1965,
      64291,"M",6042, 64292,"M",6044, 64293,"M",6046, 64294,"M",6048,
      64295,"M",6050, 64296,"M",6052, 64297,"M",1911, 64298,"M",6054,
      64299,"M",6057, 64300,"M",6060, 64301,"M",6064, 64302,"M",6068,
      64303,"M",6071, 64304,"M",6074, 64305,"M",6077, 64306,"M",6080,
      64307,"M",6083, 64308,"M",6086, 64309,"M",6089, 64310,"M",6092,
      64311,"U",0, 64312,"M",6095, 64313,"M",6098, 64314,"M",6101,
      64315,"M",6104, 64316,"M",6107, 64317,"U",0, 64318,"M",6110,
      64319,"U",0, 64320,"M",6113, 64321,"M",6116, 64322,"U",0,
      64323,"M",6119, 64324,"M",6122, 64325,"U",0, 64326,"M",6125,
      64327,"M",6128, 64328,"M",6131, 64329,"M",6134, 64330,"M",6137,
      64331,"M",6140, 64332,"M",6143, 64333,"M",6146, 64334,"M",6149,
      64335,"M",6152, 64336,"M",6155, 64338,"M",6157, 64342,"M",6159,
      64346,"M",6161, 64350,"M",6163, 64354,"M",6165, 64358,"M",6167,
      64362,"M",6169, 64366,"M",6171, 64370,"M",6173, 64374,"M",6175,
      64378,"M",6177, 64382,"M",6179, 64386,"M",6181, 64388,"M",6183,
      64390,"M",6185, 64392,"M",6187, 64394,"M",6189, 64396,"M",6191,
      64398,"M",6193, 64402,"M",6195, 64406,"M",6197, 64410,"M",6199,
      64414,"M",6201, 64416,"M",6203, 64420,"M",6205, 64422,"M",6207,
      64426,"M",6209, 64430,"M",6211, 64432,"M",6213, 64434,"V",0,
      64451,"U",0, 64467,"M",6215, 64471,"M",6217, 64473,"M",6219,
      64475,"M",6221, 64477,"M",1026, 64478,"M",6223, 64480,"M",6225,
      64482,"M",6227, 64484,"M",6229, 64488,"M",6231, 64490,"M",6233,
      64492,"M",6236, 64494,"M",6239, 64496,"M",6242, 64498,"M",6245,
      64500,"M",6248, 64502,"M",6251, 64505,"M",6254, 64508,"M",6257,
      64512,"M",6259, 64513,"M",6262, 64514,"M",6265, 64515,"M",6254,
      64516,"M",6268, 64517,"M",6271, 64518,"M",6274, 64519,"M",6277,
      64520,"M",6280, 64521,"M",6283, 64522,"M",6286, 64523,"M",6289,
      64524,"M",6292, 64525,"M",6295, 64526,"M",6298, 64527,"M",6301,
      64528,"M",6304, 64529,"M",6307, 64530,"M",6310, 64531,"M",6313,
      64532,"M",6316, 64533,"M",6319, 64534,"M",6322, 64535,"M",6325,
      64536,"M",6328, 64537,"M",6331, 64538,"M",6334, 64539,"M",6337,
      64540,"M",6340, 64541,"M",6343, 64542,"M",6346, 64543,"M",6349,
      64544,"M",6352, 64545,"M",6355, 64546,"M",6358, 64547,"M",6361,
      64548,"M",6364, 64549,"M",6367, 64550,"M",6370, 64551,"M",6373,
      64552,"M",6376, 64553,"M",6379, 64554,"M",6382, 64555,"M",6385,
      64556,"M",6388, 64557,"M",6391, 64558,"M",6394, 64559,"M",6397,
      64560,"M",6400, 64561,"M",6403, 64562,"M",6406, 64563,"M",6409,
      64564,"M",6412, 64565,"M",6415, 64566,"M",6418, 64567,"M",6421,
      64568,"M",6424, 64569,"M",6427, 64570,"M",6430, 64571,"M",6433,
      64572,"M",6436, 64573,"M",6439, 64574,"M",6442, 64575,"M",6445,
      64576,"M",6448, 64577,"M",6451, 64578,"M",6454, 64579,"M",6457,
      64580,"M",6460, 64581,"M",6463, 64582,"M",6466, 64583,"M",6469,
      64584,"M",6472, 64585,"M",6475, 64586,"M",6478, 64587,"M",6481,
      64588,"M",6484, 64589,"M",6487, 64590,"M",6490, 64591,"M",6493,
      64592,"M",6496, 64593,"M",6499, 64594,"M",6502, 64595,"M",6505,
      64596,"M",6508, 64597,"M",6511, 64598,"M",6514, 64599,"M",6517,
      64600,"M",6520, 64601,"M",6523, 64602,"M",6526, 64603,"M",6529,
      64604,"M",6532, 64605,"M",6535, 64606,"M",6538, 64607,"M",6542,
      64608,"M",6546, 64609,"M",6550, 64610,"M",6554, 64611,"M",6558,
      64612,"M",6562, 64613,"M",6565, 64614,"M",6265, 64615,"M",6568,
      64616,"M",6254, 64617,"M",6268, 64618,"M",6571, 64619,"M",6574,
      64620,"M",6280, 64621,"M",6577, 64622,"M",6283, 64623,"M",6286,
      64624,"M",6580, 64625,"M",6583, 64626,"M",6298, 64627,"M",6586,
      64628,"M",6301, 64629,"M",6304, 64630,"M",6589, 64631,"M",6592,
      64632,"M",6310, 64633,"M",6595, 64634,"M",6313, 64635,"M",6316,
      64636,"M",6403, 64637,"M",6406, 64638,"M",6415, 64639,"M",6418,
      64640,"M",6421, 64641,"M",6433, 64642,"M",6436, 64643,"M",6439,
      64644,"M",6442, 64645,"M",6454, 64646,"M",6457, 64647,"M",6460,
      64648,"M",6598, 64649,"M",6472, 64650,"M",6601, 64651,"M",6604,
      64652,"M",6490, 64653,"M",6607, 64654,"M",6493, 64655,"M",6496,
      64656,"M",6535, 64657,"M",6610, 64658,"M",6613, 64659,"M",6520,
      64660,"M",6616, 64661,"M",6523, 64662,"M",6526, 64663,"M",6259,
      64664,"M",6262, 64665,"M",6619, 64666,"M",6265, 64667,"M",6622,
      64668,"M",6271, 64669,"M",6274, 64670,"M",6277, 64671,"M",6280,
      64672,"M",6625, 64673,"M",6289, 64674,"M",6292, 64675,"M",6295,
      64676,"M",6298, 64677,"M",6628, 64678,"M",6310, 64679,"M",6319,
      64680,"M",6322, 64681,"M",6325, 64682,"M",6328, 64683,"M",6331,
      64684,"M",6337, 64685,"M",6340, 64686,"M",6343, 64687,"M",6346,
      64688,"M",6349, 64689,"M",6352, 64690,"M",6631, 64691,"M",6355,
      64692,"M",6358, 64693,"M",6361, 64694,"M",6364, 64695,"M",6367,
      64696,"M",6370, 64697,"M",6376, 64698,"M",6379, 64699,"M",6382,
      64700,"M",6385, 64701,"M",6388, 64702,"M",6391, 64703,"M",6394,
      64704,"M",6397, 64705,"M",6400, 64706,"M",6409, 64707,"M",6412,
      64708,"M",6424, 64709,"M",6427, 64710,"M",6430, 64711,"M",6433,
      64712,"M",6436, 64713,"M",6445, 64714,"M",6448, 64715,"M",6451,
      64716,"M",6454, 64717,"M",6634, 64718,"M",6463, 64719,"M",6466,
      64720,"M",6469, 64721,"M",6472, 64722,"M",6481, 64723,"M",6484,
      64724,"M",6487, 64725,"M",6490, 64726,"M",6637, 64727,"M",6499,
      64728,"M",6502, 64729,"M",6640, 64730,"M",6511, 64731,"M",6514,
      64732,"M",6517, 64733,"M",6520, 64734,"M",6643, 64735,"M",6265,
      64736,"M",6622, 64737,"M",6280, 64738,"M",6625, 64739,"M",6298,
      64740,"M",6628, 64741,"M",6310, 64742,"M",6646, 64743,"M",6349,
      64744,"M",6649, 64745,"M",6652, 64746,"M",6655, 64747,"M",6433,
      64748,"M",6436, 64749,"M",6454, 64750,"M",6490, 64751,"M",6637,
      64752,"M",6520, 64753,"M",6643, 64754,"M",6658, 64755,"M",6662,
      64756,"M",6666, 64757,"M",6670, 64758,"M",6673, 64759,"M",6676,
      64760,"M",6679, 64761,"M",6682, 64762,"M",6685, 64763,"M",6688,
      64764,"M",6691, 64765,"M",6694, 64766,"M",6697, 64767,"M",6700,
      64768,"M",6703, 64769,"M",6706, 64770,"M",6709, 64771,"M",6712,
      64772,"M",6715, 64773,"M",6718, 64774,"M",6721, 64775,"M",6724,
      64776,"M",6727, 64777,"M",6730, 64778,"M",6733, 64779,"M",6736,
      64780,"M",6652, 64781,"M",6739, 64782,"M",6742, 64783,"M",6745,
      64784,"M",6748, 64785,"M",6670, 64786,"M",6673, 64787,"M",6676,
      64788,"M",6679, 64789,"M",6682, 64790,"M",6685, 64791,"M",6688,
      64792,"M",6691, 64793,"M",6694, 64794,"M",6697, 64795,"M",6700,
      64796,"M",6703, 64797,"M",6706, 64798,"M",6709, 64799,"M",6712,
      64800,"M",6715, 64801,"M",6718, 64802,"M",6721, 64803,"M",6724,
      64804,"M",6727, 64805,"M",6730, 64806,"M",6733, 64807,"M",6736,
      64808,"M",6652, 64809,"M",6739, 64810,"M",6742, 64811,"M",6745,
      64812,"M",6748, 64813,"M",6730, 64814,"M",6733, 64815,"M",6736,
      64816,"M",6652, 64817,"M",6649, 64818,"M",6655, 64819,"M",6373,
      64820,"M",6340, 64821,"M",6343, 64822,"M",6346, 64823,"M",6730,
      64824,"M",6733, 64825,"M",6736, 64826,"M",6373, 64827,"M",6376,
      64828,"M",6751, 64830,"V",0, 64848,"M",6754, 64849,"M",6758,
      64851,"M",6762, 64852,"M",6766, 64853,"M",6770, 64854,"M",6774,
      64855,"M",6778, 64856,"M",6782, 64858,"M",6786, 64859,"M",6790,
      64860,"M",6794, 64861,"M",6798, 64862,"M",6802, 64863,"M",6806,
      64865,"M",6810, 64866,"M",6814, 64868,"M",6818, 64870,"M",6822,
      64871,"M",6826, 64873,"M",6830, 64874,"M",6834, 64876,"M",6838,
      64878,"M",6842, 64879,"M",6846, 64881,"M",6850, 64883,"M",6854,
      64884,"M",6858, 64885,"M",6862, 64886,"M",6866, 64888,"M",6870,
      64889,"M",6874, 64890,"M",6878, 64891,"M",6882, 64892,"M",6886,
      64894,"M",6890, 64895,"M",6894, 64896,"M",6898, 64897,"M",6902,
      64898,"M",6906, 64899,"M",6910, 64901,"M",6914, 64903,"M",6918,
      64905,"M",6922, 64906,"M",6926, 64907,"M",6930, 64908,"M",6934,
      64909,"M",6938, 64910,"M",6942, 64911,"M",6946, 64912,"U",0,
      64914,"M",6950, 64915,"M",6954, 64916,"M",6958, 64917,"M",6962,
      64918,"M",6966, 64919,"M",6970, 64921,"M",6974, 64922,"M",6978,
      64923,"M",6982, 64924,"M",6986, 64926,"M",6990, 64927,"M",6994,
      64928,"M",6998, 64929,"M",7002, 64930,"M",7006, 64931,"M",7010,
      64932,"M",7014, 64933,"M",7018, 64934,"M",7022, 64935,"M",7026,
      64936,"M",7030, 64937,"M",7034, 64938,"M",7038, 64939,"M",7042,
      64940,"M",7046, 64941,"M",7050, 64942,"M",7054, 64943,"M",7058,
      64944,"M",7062, 64945,"M",7066, 64946,"M",7070, 64947,"M",7074,
      64948,"M",6890, 64949,"M",6898, 64950,"M",7078, 64951,"M",7082,
      64952,"M",7086, 64953,"M",7090, 64954,"M",7094, 64955,"M",7098,
      64956,"M",7094, 64957,"M",7086, 64958,"M",7102, 64959,"M",7106,
      64960,"M",7110, 64961,"M",7114, 64962,"M",7118, 64963,"M",7098,
      64964,"M",6862, 64965,"M",6822, 64966,"M",7122, 64967,"M",7126,
      64968,"U",0, 64975,"V",0, 64976,"X",0, 65008,"M",7130, 65009,"M",7134,
      65010,"M",7138, 65011,"M",7143, 65012,"M",7148, 65013,"M",7153,
      65014,"M",7158, 65015,"M",7163, 65016,"M",7168, 65017,"M",7173,
      65018,"M",7177, 65019,"M",7196, 65020,"M",7205, 65021,"V",0,
      65024,"I",0, 65040,"M",7210, 65041,"M",7212, 65042,"X",0,
      65043,"M",7214, 65044,"M",539, 65045,"M",7216, 65046,"M",7218,
      65047,"M",7220, 65048,"M",7222, 65049,"X",0, 65050,"U",0, 65056,"V",0,
      65072,"X",0, 65073,"M",7224, 65074,"M",7226, 65075,"M",7228,
      65077,"M",1917, 65078,"M",1919, 65079,"M",7230, 65080,"M",7232,
      65081,"M",7234, 65082,"M",7236, 65083,"M",7238, 65084,"M",7240,
      65085,"M",7242, 65086,"M",7244, 65087,"M",2087, 65088,"M",2089,
      65089,"M",7246, 65090,"M",7248, 65091,"M",7250, 65092,"M",7252,
      65093,"V",0, 65095,"M",7254, 65096,"M",7256, 65097,"M",1880,
      65101,"M",7228, 65104,"M",7210, 65105,"M",7212, 65106,"X",0,
      65107,"U",0, 65108,"M",539, 65109,"M",7214, 65110,"M",7218,
      65111,"M",7216, 65112,"M",7224, 65113,"M",1917, 65114,"M",1919,
      65115,"M",7230, 65116,"M",7232, 65117,"M",7234, 65118,"M",7236,
      65119,"M",7258, 65120,"M",7260, 65121,"M",7262, 65122,"M",1911,
      65123,"M",7264, 65124,"M",7266, 65125,"M",7268, 65126,"M",1915,
      65127,"U",0, 65128,"M",7270, 65129,"M",7272, 65130,"M",7274,
      65131,"M",7276, 65132,"U",0, 65136,"M",7278, 65137,"M",7281,
      65138,"M",7284, 65139,"V",0, 65140,"M",7287, 65141,"U",0,
      65142,"M",7290, 65143,"M",7293, 65144,"M",7296, 65145,"M",7299,
      65146,"M",7302, 65147,"M",7305, 65148,"M",7308, 65149,"M",7311,
      65150,"M",7314, 65151,"M",7317, 65152,"M",7320, 65153,"M",7322,
      65155,"M",7324, 65157,"M",7326, 65159,"M",7328, 65161,"M",7330,
      65165,"M",7332, 65167,"M",7334, 65171,"M",7336, 65173,"M",7338,
      65177,"M",7340, 65181,"M",7342, 65185,"M",7344, 65189,"M",7346,
      65193,"M",7348, 65195,"M",7350, 65197,"M",7352, 65199,"M",7354,
      65201,"M",7356, 65205,"M",7358, 65209,"M",7360, 65213,"M",7362,
      65217,"M",7364, 65221,"M",7366, 65225,"M",7368, 65229,"M",7370,
      65233,"M",7372, 65237,"M",7374, 65241,"M",7376, 65245,"M",7378,
      65249,"M",7380, 65253,"M",7382, 65257,"M",7384, 65261,"M",7386,
      65263,"M",6231, 65265,"M",7388, 65269,"M",7390, 65271,"M",7393,
      65273,"M",7396, 65275,"M",7399, 65277,"U",0, 65279,"I",0, 65280,"U",0,
      65281,"M",7216, 65282,"M",7402, 65283,"M",7258, 65284,"M",7272,
      65285,"M",7274, 65286,"M",7260, 65287,"M",7404, 65288,"M",1917,
      65289,"M",1919, 65290,"M",7262, 65291,"M",1911, 65292,"M",7210,
      65293,"M",7264, 65294,"M",2996, 65295,"M",7406, 65296,"M",1897,
      65297,"M",73, 65298,"M",61, 65299,"M",63, 65300,"M",1899,
      65301,"M",1901, 65302,"M",1903, 65303,"M",1905, 65304,"M",1907,
      65305,"M",1909, 65306,"M",7214, 65307,"M",539, 65308,"M",7266,
      65309,"M",1915, 65310,"M",7268, 65311,"M",7218, 65312,"M",7276,
      65313,"M",1, 65314,"M",3, 65315,"M",5, 65316,"M",7, 65317,"M",9,
      65318,"M",11, 65319,"M",13, 65320,"M",15, 65321,"M",17, 65322,"M",19,
      65323,"M",21, 65324,"M",23, 65325,"M",25, 65326,"M",27, 65327,"M",29,
      65328,"M",31, 65329,"M",33, 65330,"M",35, 65331,"M",37, 65332,"M",39,
      65333,"M",41, 65334,"M",43, 65335,"M",45, 65336,"M",47, 65337,"M",49,
      65338,"M",51, 65339,"M",7254, 65340,"M",7270, 65341,"M",7256,
      65342,"M",7408, 65343,"M",7228, 65344,"M",1837, 65345,"M",1,
      65346,"M",3, 65347,"M",5, 65348,"M",7, 65349,"M",9, 65350,"M",11,
      65351,"M",13, 65352,"M",15, 65353,"M",17, 65354,"M",19, 65355,"M",21,
      65356,"M",23, 65357,"M",25, 65358,"M",27, 65359,"M",29, 65360,"M",31,
      65361,"M",33, 65362,"M",35, 65363,"M",37, 65364,"M",39, 65365,"M",41,
      65366,"M",43, 65367,"M",45, 65368,"M",47, 65369,"M",49, 65370,"M",51,
      65371,"M",7230, 65372,"M",7410, 65373,"M",7232, 65374,"M",7412,
      65375,"M",7414, 65376,"M",7416, 65377,"M",2996, 65378,"M",7246,
      65379,"M",7248, 65380,"M",7212, 65381,"M",7418, 65382,"M",3837,
      65383,"M",7420, 65384,"M",7422, 65385,"M",7424, 65386,"M",7426,
      65387,"M",7428, 65388,"M",7430, 65389,"M",7432, 65390,"M",7434,
      65391,"M",7436, 65392,"M",7438, 65393,"M",3745, 65394,"M",3747,
      65395,"M",3749, 65396,"M",3751, 65397,"M",3753, 65398,"M",3755,
      65399,"M",3757, 65400,"M",3759, 65401,"M",3761, 65402,"M",3763,
      65403,"M",3765, 65404,"M",3767, 65405,"M",3769, 65406,"M",3771,
      65407,"M",3773, 65408,"M",3775, 65409,"M",3777, 65410,"M",3779,
      65411,"M",3781, 65412,"M",3783, 65413,"M",3785, 65414,"M",3787,
      65415,"M",3789, 65416,"M",3791, 65417,"M",3793, 65418,"M",3795,
      65419,"M",3797, 65420,"M",3799, 65421,"M",3801, 65422,"M",3803,
      65423,"M",3805, 65424,"M",3807, 65425,"M",3809, 65426,"M",3811,
      65427,"M",3813, 65428,"M",3815, 65429,"M",3817, 65430,"M",3819,
      65431,"M",3821, 65432,"M",3823, 65433,"M",3825, 65434,"M",3827,
      65435,"M",3829, 65436,"M",3831, 65437,"M",7440, 65438,"M",7442,
      65439,"M",7444, 65440,"U",0, 65441,"M",3016, 65442,"M",3018,
      65443,"M",3020, 65444,"M",3022, 65445,"M",3024, 65446,"M",3026,
      65447,"M",3028, 65448,"M",3030, 65449,"M",3032, 65450,"M",3034,
      65451,"M",3036, 65452,"M",3038, 65453,"M",3040, 65454,"M",3042,
      65455,"M",3044, 65456,"M",3046, 65457,"M",3048, 65458,"M",3050,
      65459,"M",3052, 65460,"M",3054, 65461,"M",3056, 65462,"M",3058,
      65463,"M",3060, 65464,"M",3062, 65465,"M",3064, 65466,"M",3066,
      65467,"M",3068, 65468,"M",3070, 65469,"M",3072, 65470,"M",3074,
      65471,"U",0, 65474,"M",3076, 65475,"M",3078, 65476,"M",3080,
      65477,"M",3082, 65478,"M",3084, 65479,"M",3086, 65480,"U",0,
      65482,"M",3088, 65483,"M",3090, 65484,"M",3092, 65485,"M",3094,
      65486,"M",3096, 65487,"M",3098, 65488,"U",0, 65490,"M",3100,
      65491,"M",3102, 65492,"M",3104, 65493,"M",3106, 65494,"M",3108,
      65495,"M",3110, 65496,"U",0, 65498,"M",3112, 65499,"M",3114,
      65500,"M",3116, 65501,"U",0, 65504,"M",7446, 65505,"M",7448,
      65506,"M",7450, 65507,"M",58, 65508,"M",7452, 65509,"M",7454,
      65510,"M",7456, 65511,"U",0, 65512,"M",7458, 65513,"M",7460,
      65514,"M",7462, 65515,"M",7464, 65516,"M",7466, 65517,"M",7468,
      65518,"M",7470, 65519,"U",0, 65529,"X",0, 65536,"V",0, 65548,"U",0,
      65549,"V",0, 65575,"U",0, 65576,"V",0, 65595,"U",0, 65596,"V",0,
      65598,"U",0, 65599,"V",0, 65614,"U",0, 65616,"V",0, 65630,"U",0,
      65664,"V",0, 65787,"U",0, 65792,"V",0, 65795,"U",0, 65799,"V",0,
      65844,"U",0, 65847,"V",0, 65935,"U",0, 65936,"V",0, 65949,"U",0,
      65952,"V",0, 65953,"U",0, 66000,"V",0, 66046,"U",0, 66176,"V",0,
      66205,"U",0, 66208,"V",0, 66257,"U",0, 66272,"V",0, 66300,"U",0,
      66304,"V",0, 66340,"U",0, 66349,"V",0, 66379,"U",0, 66384,"V",0,
      66427,"U",0, 66432,"V",0, 66462,"U",0, 66463,"V",0, 66500,"U",0,
      66504,"V",0, 66518,"U",0, 66560,"M",7472, 66561,"M",7474,
      66562,"M",7476, 66563,"M",7478, 66564,"M",7480, 66565,"M",7482,
      66566,"M",7484, 66567,"M",7486, 66568,"M",7488, 66569,"M",7490,
      66570,"M",7492, 66571,"M",7494, 66572,"M",7496, 66573,"M",7498,
      66574,"M",7500, 66575,"M",7502, 66576,"M",7504, 66577,"M",7506,
      66578,"M",7508, 66579,"M",7510, 66580,"M",7512, 66581,"M",7514,
      66582,"M",7516, 66583,"M",7518, 66584,"M",7520, 66585,"M",7522,
      66586,"M",7524, 66587,"M",7526, 66588,"M",7528, 66589,"M",7530,
      66590,"M",7532, 66591,"M",7534, 66592,"M",7536, 66593,"M",7538,
      66594,"M",7540, 66595,"M",7542, 66596,"M",7544, 66597,"M",7546,
      66598,"M",7548, 66599,"M",7550, 66600,"V",0, 66718,"U",0, 66720,"V",0,
      66730,"U",0, 66736,"M",7552, 66737,"M",7554, 66738,"M",7556,
      66739,"M",7558, 66740,"M",7560, 66741,"M",7562, 66742,"M",7564,
      66743,"M",7566, 66744,"M",7568, 66745,"M",7570, 66746,"M",7572,
      66747,"M",7574, 66748,"M",7576, 66749,"M",7578, 66750,"M",7580,
      66751,"M",7582, 66752,"M",7584, 66753,"M",7586, 66754,"M",7588,
      66755,"M",7590, 66756,"M",7592, 66757,"M",7594, 66758,"M",7596,
      66759,"M",7598, 66760,"M",7600, 66761,"M",7602, 66762,"M",7604,
      66763,"M",7606, 66764,"M",7608, 66765,"M",7610, 66766,"M",7612,
      66767,"M",7614, 66768,"M",7616, 66769,"M",7618, 66770,"M",7620,
      66771,"M",7622, 66772,"U",0, 66776,"V",0, 66812,"U",0, 66816,"V",0,
      66856,"U",0, 66864,"V",0, 66916,"U",0, 66927,"V",0, 66928,"M",7624,
      66929,"M",7626, 66930,"M",7628, 66931,"M",7630, 66932,"M",7632,
      66933,"M",7634, 66934,"M",7636, 66935,"M",7638, 66936,"M",7640,
      66937,"M",7642, 66938,"M",7644, 66939,"U",0, 66940,"M",7646,
      66941,"M",7648, 66942,"M",7650, 66943,"M",7652, 66944,"M",7654,
      66945,"M",7656, 66946,"M",7658, 66947,"M",7660, 66948,"M",7662,
      66949,"M",7664, 66950,"M",7666, 66951,"M",7668, 66952,"M",7670,
      66953,"M",7672, 66954,"M",7674, 66955,"U",0, 66956,"M",7676,
      66957,"M",7678, 66958,"M",7680, 66959,"M",7682, 66960,"M",7684,
      66961,"M",7686, 66962,"M",7688, 66963,"U",0, 66964,"M",7690,
      66965,"M",7692, 66966,"U",0, 66967,"V",0, 66978,"U",0, 66979,"V",0,
      66994,"U",0, 66995,"V",0, 67002,"U",0, 67003,"V",0, 67005,"U",0,
      67072,"V",0, 67383,"U",0, 67392,"V",0, 67414,"U",0, 67424,"V",0,
      67432,"U",0, 67456,"V",0, 67457,"M",7694, 67458,"M",7696,
      67459,"M",99, 67460,"M",7698, 67461,"M",279, 67462,"U",0,
      67463,"M",7700, 67464,"M",7702, 67465,"M",7704, 67466,"M",7706,
      67467,"M",289, 67468,"M",291, 67469,"M",7708, 67470,"M",7710,
      67471,"M",7712, 67472,"M",7714, 67473,"M",7716, 67474,"M",7718,
      67475,"M",303, 67476,"M",7720, 67477,"M",185, 67478,"M",7722,
      67479,"M",7724, 67480,"M",7726, 67481,"M",7728, 67482,"M",7730,
      67483,"M",4981, 67484,"M",7732, 67485,"M",7734, 67486,"M",7736,
      67487,"M",7738, 67488,"M",7740, 67489,"M",7742, 67490,"M",133,
      67491,"M",7744, 67492,"M",7746, 67493,"M",33, 67494,"M",7748,
      67495,"M",7750, 67496,"M",2440, 67497,"M",7752, 67498,"M",325,
      67499,"M",7754, 67500,"M",7756, 67501,"M",7758, 67502,"M",7760,
      67503,"M",333, 67504,"M",7762, 67505,"U",0, 67506,"M",7764,
      67507,"M",7766, 67508,"M",7768, 67509,"M",7770, 67510,"M",7772,
      67511,"M",7774, 67512,"M",7776, 67513,"M",7778, 67514,"M",7780,
      67515,"U",0, 67584,"V",0, 67590,"U",0, 67592,"V",0, 67593,"U",0,
      67594,"V",0, 67638,"U",0, 67639,"V",0, 67641,"U",0, 67644,"V",0,
      67645,"U",0, 67647,"V",0, 67670,"U",0, 67671,"V",0, 67743,"U",0,
      67751,"V",0, 67760,"U",0, 67808,"V",0, 67827,"U",0, 67828,"V",0,
      67830,"U",0, 67835,"V",0, 67868,"U",0, 67871,"V",0, 67898,"U",0,
      67903,"V",0, 67904,"U",0, 67968,"V",0, 68024,"U",0, 68028,"V",0,
      68048,"U",0, 68050,"V",0, 68100,"U",0, 68101,"V",0, 68103,"U",0,
      68108,"V",0, 68116,"U",0, 68117,"V",0, 68120,"U",0, 68121,"V",0,
      68150,"U",0, 68152,"V",0, 68155,"U",0, 68159,"V",0, 68169,"U",0,
      68176,"V",0, 68185,"U",0, 68192,"V",0, 68256,"U",0, 68288,"V",0,
      68327,"U",0, 68331,"V",0, 68343,"U",0, 68352,"V",0, 68406,"U",0,
      68409,"V",0, 68438,"U",0, 68440,"V",0, 68467,"U",0, 68472,"V",0,
      68498,"U",0, 68505,"V",0, 68509,"U",0, 68521,"V",0, 68528,"U",0,
      68608,"V",0, 68681,"U",0, 68736,"M",7782, 68737,"M",7784,
      68738,"M",7786, 68739,"M",7788, 68740,"M",7790, 68741,"M",7792,
      68742,"M",7794, 68743,"M",7796, 68744,"M",7798, 68745,"M",7800,
      68746,"M",7802, 68747,"M",7804, 68748,"M",7806, 68749,"M",7808,
      68750,"M",7810, 68751,"M",7812, 68752,"M",7814, 68753,"M",7816,
      68754,"M",7818, 68755,"M",7820, 68756,"M",7822, 68757,"M",7824,
      68758,"M",7826, 68759,"M",7828, 68760,"M",7830, 68761,"M",7832,
      68762,"M",7834, 68763,"M",7836, 68764,"M",7838, 68765,"M",7840,
      68766,"M",7842, 68767,"M",7844, 68768,"M",7846, 68769,"M",7848,
      68770,"M",7850, 68771,"M",7852, 68772,"M",7854, 68773,"M",7856,
      68774,"M",7858, 68775,"M",7860, 68776,"M",7862, 68777,"M",7864,
      68778,"M",7866, 68779,"M",7868, 68780,"M",7870, 68781,"M",7872,
      68782,"M",7874, 68783,"M",7876, 68784,"M",7878, 68785,"M",7880,
      68786,"M",7882, 68787,"U",0, 68800,"V",0, 68851,"U",0, 68858,"V",0,
      68904,"U",0, 68912,"V",0, 68922,"U",0, 69216,"V",0, 69247,"U",0,
      69248,"V",0, 69290,"U",0, 69291,"V",0, 69294,"U",0, 69296,"V",0,
      69298,"U",0, 69373,"V",0, 69416,"U",0, 69424,"V",0, 69466,"U",0,
      69488,"V",0, 69514,"U",0, 69552,"V",0, 69580,"U",0, 69600,"V",0,
      69623,"U",0, 69632,"V",0, 69710,"U",0, 69714,"V",0, 69750,"U",0,
      69759,"V",0, 69821,"X",0, 69822,"V",0, 69827,"U",0, 69837,"X",0,
      69838,"U",0, 69840,"V",0, 69865,"U",0, 69872,"V",0, 69882,"U",0,
      69888,"V",0, 69941,"U",0, 69942,"V",0, 69960,"U",0, 69968,"V",0,
      70007,"U",0, 70016,"V",0, 70112,"U",0, 70113,"V",0, 70133,"U",0,
      70144,"V",0, 70162,"U",0, 70163,"V",0, 70210,"U",0, 70272,"V",0,
      70279,"U",0, 70280,"V",0, 70281,"U",0, 70282,"V",0, 70286,"U",0,
      70287,"V",0, 70302,"U",0, 70303,"V",0, 70314,"U",0, 70320,"V",0,
      70379,"U",0, 70384,"V",0, 70394,"U",0, 70400,"V",0, 70404,"U",0,
      70405,"V",0, 70413,"U",0, 70415,"V",0, 70417,"U",0, 70419,"V",0,
      70441,"U",0, 70442,"V",0, 70449,"U",0, 70450,"V",0, 70452,"U",0,
      70453,"V",0, 70458,"U",0, 70459,"V",0, 70469,"U",0, 70471,"V",0,
      70473,"U",0, 70475,"V",0, 70478,"U",0, 70480,"V",0, 70481,"U",0,
      70487,"V",0, 70488,"U",0, 70493,"V",0, 70500,"U",0, 70502,"V",0,
      70509,"U",0, 70512,"V",0, 70517,"U",0, 70656,"V",0, 70748,"U",0,
      70749,"V",0, 70754,"U",0, 70784,"V",0, 70856,"U",0, 70864,"V",0,
      70874,"U",0, 71040,"V",0, 71094,"U",0, 71096,"V",0, 71134,"U",0,
      71168,"V",0, 71237,"U",0, 71248,"V",0, 71258,"U",0, 71264,"V",0,
      71277,"U",0, 71296,"V",0, 71354,"U",0, 71360,"V",0, 71370,"U",0,
      71424,"V",0, 71451,"U",0, 71453,"V",0, 71454,"U",0, 71455,"V",0,
      71468,"U",0, 71472,"V",0, 71495,"U",0, 71680,"V",0, 71740,"U",0,
      71840,"M",7884, 71841,"M",7886, 71842,"M",7888, 71843,"M",7890,
      71844,"M",7892, 71845,"M",7894, 71846,"M",7896, 71847,"M",7898,
      71848,"M",7900, 71849,"M",7902, 71850,"M",7904, 71851,"M",7906,
      71852,"M",7908, 71853,"M",7910, 71854,"M",7912, 71855,"M",7914,
      71856,"M",7916, 71857,"M",7918, 71858,"M",7920, 71859,"M",7922,
      71860,"M",7924, 71861,"M",7926, 71862,"M",7928, 71863,"M",7930,
      71864,"M",7932, 71865,"M",7934, 71866,"M",7936, 71867,"M",7938,
      71868,"M",7940, 71869,"M",7942, 71870,"M",7944, 71871,"M",7946,
      71872,"V",0, 71923,"U",0, 71935,"V",0, 71943,"U",0, 71945,"V",0,
      71946,"U",0, 71948,"V",0, 71956,"U",0, 71957,"V",0, 71959,"U",0,
      71960,"V",0, 71990,"U",0, 71991,"V",0, 71993,"U",0, 71995,"V",0,
      72007,"U",0, 72016,"V",0, 72026,"U",0, 72096,"V",0, 72104,"U",0,
      72106,"V",0, 72152,"U",0, 72154,"V",0, 72165,"U",0, 72192,"V",0,
      72264,"U",0, 72272,"V",0, 72355,"U",0, 72368,"V",0, 72441,"U",0,
      72448,"V",0, 72458,"U",0, 72704,"V",0, 72713,"U",0, 72714,"V",0,
      72759,"U",0, 72760,"V",0, 72774,"U",0, 72784,"V",0, 72813,"U",0,
      72816,"V",0, 72848,"U",0, 72850,"V",0, 72872,"U",0, 72873,"V",0,
      72887,"U",0, 72960,"V",0, 72967,"U",0, 72968,"V",0, 72970,"U",0,
      72971,"V",0, 73015,"U",0, 73018,"V",0, 73019,"U",0, 73020,"V",0,
      73022,"U",0, 73023,"V",0, 73032,"U",0, 73040,"V",0, 73050,"U",0,
      73056,"V",0, 73062,"U",0, 73063,"V",0, 73065,"U",0, 73066,"V",0,
      73103,"U",0, 73104,"V",0, 73106,"U",0, 73107,"V",0, 73113,"U",0,
      73120,"V",0, 73130,"U",0, 73440,"V",0, 73465,"U",0, 73472,"V",0,
      73489,"U",0, 73490,"V",0, 73531,"U",0, 73534,"V",0, 73562,"U",0,
      73648,"V",0, 73649,"U",0, 73664,"V",0, 73714,"U",0, 73727,"V",0,
      74650,"U",0, 74752,"V",0, 74863,"U",0, 74864,"V",0, 74869,"U",0,
      74880,"V",0, 75076,"U",0, 77712,"V",0, 77811,"U",0, 77824,"V",0,
      78896,"X",0, 78912,"V",0, 78934,"U",0, 82944,"V",0, 83527,"U",0,
      92160,"V",0, 92729,"U",0, 92736,"V",0, 92767,"U",0, 92768,"V",0,
      92778,"U",0, 92782,"V",0, 92863,"U",0, 92864,"V",0, 92874,"U",0,
      92880,"V",0, 92910,"U",0, 92912,"V",0, 92918,"U",0, 92928,"V",0,
      92998,"U",0, 93008,"V",0, 93018,"U",0, 93019,"V",0, 93026,"U",0,
      93027,"V",0, 93048,"U",0, 93053,"V",0, 93072,"U",0, 93760,"M",7948,
      93761,"M",7950, 93762,"M",7952, 93763,"M",7954, 93764,"M",7956,
      93765,"M",7958, 93766,"M",7960, 93767,"M",7962, 93768,"M",7964,
      93769,"M",7966, 93770,"M",7968, 93771,"M",7970, 93772,"M",7972,
      93773,"M",7974, 93774,"M",7976, 93775,"M",7978, 93776,"M",7980,
      93777,"M",7982, 93778,"M",7984, 93779,"M",7986, 93780,"M",7988,
      93781,"M",7990, 93782,"M",7992, 93783,"M",7994, 93784,"M",7996,
      93785,"M",7998, 93786,"M",8000, 93787,"M",8002, 93788,"M",8004,
      93789,"M",8006, 93790,"M",8008, 93791,"M",8010, 93792,"V",0,
      93851,"U",0, 93952,"V",0, 94027,"U",0, 94031,"V",0, 94088,"U",0,
      94095,"V",0, 94112,"U",0, 94176,"V",0, 94181,"U",0, 94192,"V",0,
      94194,"U",0, 94208,"V",0, 100344,"U",0, 100352,"V",0, 101590,"U",0,
      101632,"V",0, 101641,"U",0, 110576,"V",0, 110580,"U",0, 110581,"V",0,
      110588,"U",0, 110589,"V",0, 110591,"U",0, 110592,"V",0, 110883,"U",0,
      110898,"V",0, 110899,"U",0, 110928,"V",0, 110931,"U",0, 110933,"V",0,
      110934,"U",0, 110948,"V",0, 110952,"U",0, 110960,"V",0, 111356,"U",0,
      113664,"V",0, 113771,"U",0, 113776,"V",0, 113789,"U",0, 113792,"V",0,
      113801,"U",0, 113808,"V",0, 113818,"U",0, 113820,"V",0, 113824,"I",0,
      113828,"U",0, 118528,"V",0, 118574,"U",0, 118576,"V",0, 118599,"U",0,
      118608,"V",0, 118724,"U",0, 118784,"V",0, 119030,"U",0, 119040,"V",0,
      119079,"U",0, 119081,"V",0, 119134,"M",8012, 119135,"M",8015,
      119136,"M",8018, 119137,"M",8022, 119138,"M",8026, 119139,"M",8030,
      119140,"M",8034, 119141,"V",0, 119155,"U",0, 119163,"V",0,
      119227,"M",8038, 119228,"M",8041, 119229,"M",8044, 119230,"M",8048,
      119231,"M",8052, 119232,"M",8056, 119233,"V",0, 119275,"U",0,
      119296,"V",0, 119366,"U",0, 119488,"V",0, 119508,"U",0, 119520,"V",0,
      119540,"U",0, 119552,"V",0, 119639,"U",0, 119648,"V",0, 119673,"U",0,
      119808,"M",1, 119809,"M",3, 119810,"M",5, 119811,"M",7, 119812,"M",9,
      119813,"M",11, 119814,"M",13, 119815,"M",15, 119816,"M",17,
      119817,"M",19, 119818,"M",21, 119819,"M",23, 119820,"M",25,
      119821,"M",27, 119822,"M",29, 119823,"M",31, 119824,"M",33,
      119825,"M",35, 119826,"M",37, 119827,"M",39, 119828,"M",41,
      119829,"M",43, 119830,"M",45, 119831,"M",47, 119832,"M",49,
      119833,"M",51, 119834,"M",1, 119835,"M",3, 119836,"M",5, 119837,"M",7,
      119838,"M",9, 119839,"M",11, 119840,"M",13, 119841,"M",15,
      119842,"M",17, 119843,"M",19, 119844,"M",21, 119845,"M",23,
      119846,"M",25, 119847,"M",27, 119848,"M",29, 119849,"M",31,
      119850,"M",33, 119851,"M",35, 119852,"M",37, 119853,"M",39,
      119854,"M",41, 119855,"M",43, 119856,"M",45, 119857,"M",47,
      119858,"M",49, 119859,"M",51, 119860,"M",1, 119861,"M",3,
      119862,"M",5, 119863,"M",7, 119864,"M",9, 119865,"M",11,
      119866,"M",13, 119867,"M",15, 119868,"M",17, 119869,"M",19,
      119870,"M",21, 119871,"M",23, 119872,"M",25, 119873,"M",27,
      119874,"M",29, 119875,"M",31, 119876,"M",33, 119877,"M",35,
      119878,"M",37, 119879,"M",39, 119880,"M",41, 119881,"M",43,
      119882,"M",45, 119883,"M",47, 119884,"M",49, 119885,"M",51,
      119886,"M",1, 119887,"M",3, 119888,"M",5, 119889,"M",7, 119890,"M",9,
      119891,"M",11, 119892,"M",13, 119893,"U",0, 119894,"M",17,
      119895,"M",19, 119896,"M",21, 119897,"M",23, 119898,"M",25,
      119899,"M",27, 119900,"M",29, 119901,"M",31, 119902,"M",33,
      119903,"M",35, 119904,"M",37, 119905,"M",39, 119906,"M",41,
      119907,"M",43, 119908,"M",45, 119909,"M",47, 119910,"M",49,
      119911,"M",51, 119912,"M",1, 119913,"M",3, 119914,"M",5, 119915,"M",7,
      119916,"M",9, 119917,"M",11, 119918,"M",13, 119919,"M",15,
      119920,"M",17, 119921,"M",19, 119922,"M",21, 119923,"M",23,
      119924,"M",25, 119925,"M",27, 119926,"M",29, 119927,"M",31,
      119928,"M",33, 119929,"M",35, 119930,"M",37, 119931,"M",39,
      119932,"M",41, 119933,"M",43, 119934,"M",45, 119935,"M",47,
      119936,"M",49, 119937,"M",51, 119938,"M",1, 119939,"M",3,
      119940,"M",5, 119941,"M",7, 119942,"M",9, 119943,"M",11,
      119944,"M",13, 119945,"M",15, 119946,"M",17, 119947,"M",19,
      119948,"M",21, 119949,"M",23, 119950,"M",25, 119951,"M",27,
      119952,"M",29, 119953,"M",31, 119954,"M",33, 119955,"M",35,
      119956,"M",37, 119957,"M",39, 119958,"M",41, 119959,"M",43,
      119960,"M",45, 119961,"M",47, 119962,"M",49, 119963,"M",51,
      119964,"M",1, 119965,"U",0, 119966,"M",5, 119967,"M",7, 119968,"U",0,
      119970,"M",13, 119971,"U",0, 119973,"M",19, 119974,"M",21,
      119975,"U",0, 119977,"M",27, 119978,"M",29, 119979,"M",31,
      119980,"M",33, 119981,"U",0, 119982,"M",37, 119983,"M",39,
      119984,"M",41, 119985,"M",43, 119986,"M",45, 119987,"M",47,
      119988,"M",49, 119989,"M",51, 119990,"M",1, 119991,"M",3,
      119992,"M",5, 119993,"M",7, 119994,"U",0, 119995,"M",11, 119996,"U",0,
      119997,"M",15, 119998,"M",17, 119999,"M",19, 120000,"M",21,
      120001,"M",23, 120002,"M",25, 120003,"M",27, 120004,"U",0,
      120005,"M",31, 120006,"M",33, 120007,"M",35, 120008,"M",37,
      120009,"M",39, 120010,"M",41, 120011,"M",43, 120012,"M",45,
      120013,"M",47, 120014,"M",49, 120015,"M",51, 120016,"M",1,
      120017,"M",3, 120018,"M",5, 120019,"M",7, 120020,"M",9, 120021,"M",11,
      120022,"M",13, 120023,"M",15, 120024,"M",17, 120025,"M",19,
      120026,"M",21, 120027,"M",23, 120028,"M",25, 120029,"M",27,
      120030,"M",29, 120031,"M",31, 120032,"M",33, 120033,"M",35,
      120034,"M",37, 120035,"M",39, 120036,"M",41, 120037,"M",43,
      120038,"M",45, 120039,"M",47, 120040,"M",49, 120041,"M",51,
      120042,"M",1, 120043,"M",3, 120044,"M",5, 120045,"M",7, 120046,"M",9,
      120047,"M",11, 120048,"M",13, 120049,"M",15, 120050,"M",17,
      120051,"M",19, 120052,"M",21, 120053,"M",23, 120054,"M",25,
      120055,"M",27, 120056,"M",29, 120057,"M",31, 120058,"M",33,
      120059,"M",35, 120060,"M",37, 120061,"M",39, 120062,"M",41,
      120063,"M",43, 120064,"M",45, 120065,"M",47, 120066,"M",49,
      120067,"M",51, 120068,"M",1, 120069,"M",3, 120070,"U",0, 120071,"M",7,
      120072,"M",9, 120073,"M",11, 120074,"M",13, 120075,"U",0,
      120077,"M",19, 120078,"M",21, 120079,"M",23, 120080,"M",25,
      120081,"M",27, 120082,"M",29, 120083,"M",31, 120084,"M",33,
      120085,"U",0, 120086,"M",37, 120087,"M",39, 120088,"M",41,
      120089,"M",43, 120090,"M",45, 120091,"M",47, 120092,"M",49,
      120093,"U",0, 120094,"M",1, 120095,"M",3, 120096,"M",5, 120097,"M",7,
      120098,"M",9, 120099,"M",11, 120100,"M",13, 120101,"M",15,
      120102,"M",17, 120103,"M",19, 120104,"M",21, 120105,"M",23,
      120106,"M",25, 120107,"M",27, 120108,"M",29, 120109,"M",31,
      120110,"M",33, 120111,"M",35, 120112,"M",37, 120113,"M",39,
      120114,"M",41, 120115,"M",43, 120116,"M",45, 120117,"M",47,
      120118,"M",49, 120119,"M",51, 120120,"M",1, 120121,"M",3,
      120122,"U",0, 120123,"M",7, 120124,"M",9, 120125,"M",11,
      120126,"M",13, 120127,"U",0, 120128,"M",17, 120129,"M",19,
      120130,"M",21, 120131,"M",23, 120132,"M",25, 120133,"U",0,
      120134,"M",29, 120135,"U",0, 120138,"M",37, 120139,"M",39,
      120140,"M",41, 120141,"M",43, 120142,"M",45, 120143,"M",47,
      120144,"M",49, 120145,"U",0, 120146,"M",1, 120147,"M",3, 120148,"M",5,
      120149,"M",7, 120150,"M",9, 120151,"M",11, 120152,"M",13,
      120153,"M",15, 120154,"M",17, 120155,"M",19, 120156,"M",21,
      120157,"M",23, 120158,"M",25, 120159,"M",27, 120160,"M",29,
      120161,"M",31, 120162,"M",33, 120163,"M",35, 120164,"M",37,
      120165,"M",39, 120166,"M",41, 120167,"M",43, 120168,"M",45,
      120169,"M",47, 120170,"M",49, 120171,"M",51, 120172,"M",1,
      120173,"M",3, 120174,"M",5, 120175,"M",7, 120176,"M",9, 120177,"M",11,
      120178,"M",13, 120179,"M",15, 120180,"M",17, 120181,"M",19,
      120182,"M",21, 120183,"M",23, 120184,"M",25, 120185,"M",27,
      120186,"M",29, 120187,"M",31, 120188,"M",33, 120189,"M",35,
      120190,"M",37, 120191,"M",39, 120192,"M",41, 120193,"M",43,
      120194,"M",45, 120195,"M",47, 120196,"M",49, 120197,"M",51,
      120198,"M",1, 120199,"M",3, 120200,"M",5, 120201,"M",7, 120202,"M",9,
      120203,"M",11, 120204,"M",13, 120205,"M",15, 120206,"M",17,
      120207,"M",19, 120208,"M",21, 120209,"M",23, 120210,"M",25,
      120211,"M",27, 120212,"M",29, 120213,"M",31, 120214,"M",33,
      120215,"M",35, 120216,"M",37, 120217,"M",39, 120218,"M",41,
      120219,"M",43, 120220,"M",45, 120221,"M",47, 120222,"M",49,
      120223,"M",51, 120224,"M",1, 120225,"M",3, 120226,"M",5, 120227,"M",7,
      120228,"M",9, 120229,"M",11, 120230,"M",13, 120231,"M",15,
      120232,"M",17, 120233,"M",19, 120234,"M",21, 120235,"M",23,
      120236,"M",25, 120237,"M",27, 120238,"M",29, 120239,"M",31,
      120240,"M",33, 120241,"M",35, 120242,"M",37, 120243,"M",39,
      120244,"M",41, 120245,"M",43, 120246,"M",45, 120247,"M",47,
      120248,"M",49, 120249,"M",51, 120250,"M",1, 120251,"M",3,
      120252,"M",5, 120253,"M",7, 120254,"M",9, 120255,"M",11,
      120256,"M",13, 120257,"M",15, 120258,"M",17, 120259,"M",19,
      120260,"M",21, 120261,"M",23, 120262,"M",25, 120263,"M",27,
      120264,"M",29, 120265,"M",31, 120266,"M",33, 120267,"M",35,
      120268,"M",37, 120269,"M",39, 120270,"M",41, 120271,"M",43,
      120272,"M",45, 120273,"M",47, 120274,"M",49, 120275,"M",51,
      120276,"M",1, 120277,"M",3, 120278,"M",5, 120279,"M",7, 120280,"M",9,
      120281,"M",11, 120282,"M",13, 120283,"M",15, 120284,"M",17,
      120285,"M",19, 120286,"M",21, 120287,"M",23, 120288,"M",25,
      120289,"M",27, 120290,"M",29, 120291,"M",31, 120292,"M",33,
      120293,"M",35, 120294,"M",37, 120295,"M",39, 120296,"M",41,
      120297,"M",43, 120298,"M",45, 120299,"M",47, 120300,"M",49,
      120301,"M",51, 120302,"M",1, 120303,"M",3, 120304,"M",5, 120305,"M",7,
      120306,"M",9, 120307,"M",11, 120308,"M",13, 120309,"M",15,
      120310,"M",17, 120311,"M",19, 120312,"M",21, 120313,"M",23,
      120314,"M",25, 120315,"M",27, 120316,"M",29, 120317,"M",31,
      120318,"M",33, 120319,"M",35, 120320,"M",37, 120321,"M",39,
      120322,"M",41, 120323,"M",43, 120324,"M",45, 120325,"M",47,
      120326,"M",49, 120327,"M",51, 120328,"M",1, 120329,"M",3,
      120330,"M",5, 120331,"M",7, 120332,"M",9, 120333,"M",11,
      120334,"M",13, 120335,"M",15, 120336,"M",17, 120337,"M",19,
      120338,"M",21, 120339,"M",23, 120340,"M",25, 120341,"M",27,
      120342,"M",29, 120343,"M",31, 120344,"M",33, 120345,"M",35,
      120346,"M",37, 120347,"M",39, 120348,"M",41, 120349,"M",43,
      120350,"M",45, 120351,"M",47, 120352,"M",49, 120353,"M",51,
      120354,"M",1, 120355,"M",3, 120356,"M",5, 120357,"M",7, 120358,"M",9,
      120359,"M",11, 120360,"M",13, 120361,"M",15, 120362,"M",17,
      120363,"M",19, 120364,"M",21, 120365,"M",23, 120366,"M",25,
      120367,"M",27, 120368,"M",29, 120369,"M",31, 120370,"M",33,
      120371,"M",35, 120372,"M",37, 120373,"M",39, 120374,"M",41,
      120375,"M",43, 120376,"M",45, 120377,"M",47, 120378,"M",49,
      120379,"M",51, 120380,"M",1, 120381,"M",3, 120382,"M",5, 120383,"M",7,
      120384,"M",9, 120385,"M",11, 120386,"M",13, 120387,"M",15,
      120388,"M",17, 120389,"M",19, 120390,"M",21, 120391,"M",23,
      120392,"M",25, 120393,"M",27, 120394,"M",29, 120395,"M",31,
      120396,"M",33, 120397,"M",35, 120398,"M",37, 120399,"M",39,
      120400,"M",41, 120401,"M",43, 120402,"M",45, 120403,"M",47,
      120404,"M",49, 120405,"M",51, 120406,"M",1, 120407,"M",3,
      120408,"M",5, 120409,"M",7, 120410,"M",9, 120411,"M",11,
      120412,"M",13, 120413,"M",15, 120414,"M",17, 120415,"M",19,
      120416,"M",21, 120417,"M",23, 120418,"M",25, 120419,"M",27,
      120420,"M",29, 120421,"M",31, 120422,"M",33, 120423,"M",35,
      120424,"M",37, 120425,"M",39, 120426,"M",41, 120427,"M",43,
      120428,"M",45, 120429,"M",47, 120430,"M",49, 120431,"M",51,
      120432,"M",1, 120433,"M",3, 120434,"M",5, 120435,"M",7, 120436,"M",9,
      120437,"M",11, 120438,"M",13, 120439,"M",15, 120440,"M",17,
      120441,"M",19, 120442,"M",21, 120443,"M",23, 120444,"M",25,
      120445,"M",27, 120446,"M",29, 120447,"M",31, 120448,"M",33,
      120449,"M",35, 120450,"M",37, 120451,"M",39, 120452,"M",41,
      120453,"M",43, 120454,"M",45, 120455,"M",47, 120456,"M",49,
      120457,"M",51, 120458,"M",1, 120459,"M",3, 120460,"M",5, 120461,"M",7,
      120462,"M",9, 120463,"M",11, 120464,"M",13, 120465,"M",15,
      120466,"M",17, 120467,"M",19, 120468,"M",21, 120469,"M",23,
      120470,"M",25, 120471,"M",27, 120472,"M",29, 120473,"M",31,
      120474,"M",33, 120475,"M",35, 120476,"M",37, 120477,"M",39,
      120478,"M",41, 120479,"M",43, 120480,"M",45, 120481,"M",47,
      120482,"M",49, 120483,"M",51, 120484,"M",8060, 120485,"M",8062,
      120486,"U",0, 120488,"M",563, 120489,"M",565, 120490,"M",567,
      120491,"M",569, 120492,"M",571, 120493,"M",573, 120494,"M",575,
      120495,"M",577, 120496,"M",526, 120497,"M",579, 120498,"M",581,
      120499,"M",68, 120500,"M",583, 120501,"M",585, 120502,"M",587,
      120503,"M",589, 120504,"M",591, 120505,"M",577, 120506,"M",593,
      120507,"M",595, 120508,"M",597, 120509,"M",599, 120510,"M",601,
      120511,"M",603, 120512,"M",605, 120513,"M",8064, 120514,"M",563,
      120515,"M",565, 120516,"M",567, 120517,"M",569, 120518,"M",571,
      120519,"M",573, 120520,"M",575, 120521,"M",577, 120522,"M",526,
      120523,"M",579, 120524,"M",581, 120525,"M",68, 120526,"M",583,
      120527,"M",585, 120528,"M",587, 120529,"M",589, 120530,"M",591,
      120531,"M",593, 120533,"M",595, 120534,"M",597, 120535,"M",599,
      120536,"M",601, 120537,"M",603, 120538,"M",605, 120539,"M",8066,
      120540,"M",571, 120541,"M",577, 120542,"M",579, 120543,"M",599,
      120544,"M",591, 120545,"M",589, 120546,"M",563, 120547,"M",565,
      120548,"M",567, 120549,"M",569, 120550,"M",571, 120551,"M",573,
      120552,"M",575, 120553,"M",577, 120554,"M",526, 120555,"M",579,
      120556,"M",581, 120557,"M",68, 120558,"M",583, 120559,"M",585,
      120560,"M",587, 120561,"M",589, 120562,"M",591, 120563,"M",577,
      120564,"M",593, 120565,"M",595, 120566,"M",597, 120567,"M",599,
      120568,"M",601, 120569,"M",603, 120570,"M",605, 120571,"M",8064,
      120572,"M",563, 120573,"M",565, 120574,"M",567, 120575,"M",569,
      120576,"M",571, 120577,"M",573, 120578,"M",575, 120579,"M",577,
      120580,"M",526, 120581,"M",579, 120582,"M",581, 120583,"M",68,
      120584,"M",583, 120585,"M",585, 120586,"M",587, 120587,"M",589,
      120588,"M",591, 120589,"M",593, 120591,"M",595, 120592,"M",597,
      120593,"M",599, 120594,"M",601, 120595,"M",603, 120596,"M",605,
      120597,"M",8066, 120598,"M",571, 120599,"M",577, 120600,"M",579,
      120601,"M",599, 120602,"M",591, 120603,"M",589, 120604,"M",563,
      120605,"M",565, 120606,"M",567, 120607,"M",569, 120608,"M",571,
      120609,"M",573, 120610,"M",575, 120611,"M",577, 120612,"M",526,
      120613,"M",579, 120614,"M",581, 120615,"M",68, 120616,"M",583,
      120617,"M",585, 120618,"M",587, 120619,"M",589, 120620,"M",591,
      120621,"M",577, 120622,"M",593, 120623,"M",595, 120624,"M",597,
      120625,"M",599, 120626,"M",601, 120627,"M",603, 120628,"M",605,
      120629,"M",8064, 120630,"M",563, 120631,"M",565, 120632,"M",567,
      120633,"M",569, 120634,"M",571, 120635,"M",573, 120636,"M",575,
      120637,"M",577, 120638,"M",526, 120639,"M",579, 120640,"M",581,
      120641,"M",68, 120642,"M",583, 120643,"M",585, 120644,"M",587,
      120645,"M",589, 120646,"M",591, 120647,"M",593, 120649,"M",595,
      120650,"M",597, 120651,"M",599, 120652,"M",601, 120653,"M",603,
      120654,"M",605, 120655,"M",8066, 120656,"M",571, 120657,"M",577,
      120658,"M",579, 120659,"M",599, 120660,"M",591, 120661,"M",589,
      120662,"M",563, 120663,"M",565, 120664,"M",567, 120665,"M",569,
      120666,"M",571, 120667,"M",573, 120668,"M",575, 120669,"M",577,
      120670,"M",526, 120671,"M",579, 120672,"M",581, 120673,"M",68,
      120674,"M",583, 120675,"M",585, 120676,"M",587, 120677,"M",589,
      120678,"M",591, 120679,"M",577, 120680,"M",593, 120681,"M",595,
      120682,"M",597, 120683,"M",599, 120684,"M",601, 120685,"M",603,
      120686,"M",605, 120687,"M",8064, 120688,"M",563, 120689,"M",565,
      120690,"M",567, 120691,"M",569, 120692,"M",571, 120693,"M",573,
      120694,"M",575, 120695,"M",577, 120696,"M",526, 120697,"M",579,
      120698,"M",581, 120699,"M",68, 120700,"M",583, 120701,"M",585,
      120702,"M",587, 120703,"M",589, 120704,"M",591, 120705,"M",593,
      120707,"M",595, 120708,"M",597, 120709,"M",599, 120710,"M",601,
      120711,"M",603, 120712,"M",605, 120713,"M",8066, 120714,"M",571,
      120715,"M",577, 120716,"M",579, 120717,"M",599, 120718,"M",591,
      120719,"M",589, 120720,"M",563, 120721,"M",565, 120722,"M",567,
      120723,"M",569, 120724,"M",571, 120725,"M",573, 120726,"M",575,
      120727,"M",577, 120728,"M",526, 120729,"M",579, 120730,"M",581,
      120731,"M",68, 120732,"M",583, 120733,"M",585, 120734,"M",587,
      120735,"M",589, 120736,"M",591, 120737,"M",577, 120738,"M",593,
      120739,"M",595, 120740,"M",597, 120741,"M",599, 120742,"M",601,
      120743,"M",603, 120744,"M",605, 120745,"M",8064, 120746,"M",563,
      120747,"M",565, 120748,"M",567, 120749,"M",569, 120750,"M",571,
      120751,"M",573, 120752,"M",575, 120753,"M",577, 120754,"M",526,
      120755,"M",579, 120756,"M",581, 120757,"M",68, 120758,"M",583,
      120759,"M",585, 120760,"M",587, 120761,"M",589, 120762,"M",591,
      120763,"M",593, 120765,"M",595, 120766,"M",597, 120767,"M",599,
      120768,"M",601, 120769,"M",603, 120770,"M",605, 120771,"M",8066,
      120772,"M",571, 120773,"M",577, 120774,"M",579, 120775,"M",599,
      120776,"M",591, 120777,"M",589, 120778,"M",617, 120780,"U",0,
      120782,"M",1897, 120783,"M",73, 120784,"M",61, 120785,"M",63,
      120786,"M",1899, 120787,"M",1901, 120788,"M",1903, 120789,"M",1905,
      120790,"M",1907, 120791,"M",1909, 120792,"M",1897, 120793,"M",73,
      120794,"M",61, 120795,"M",63, 120796,"M",1899, 120797,"M",1901,
      120798,"M",1903, 120799,"M",1905, 120800,"M",1907, 120801,"M",1909,
      120802,"M",1897, 120803,"M",73, 120804,"M",61, 120805,"M",63,
      120806,"M",1899, 120807,"M",1901, 120808,"M",1903, 120809,"M",1905,
      120810,"M",1907, 120811,"M",1909, 120812,"M",1897, 120813,"M",73,
      120814,"M",61, 120815,"M",63, 120816,"M",1899, 120817,"M",1901,
      120818,"M",1903, 120819,"M",1905, 120820,"M",1907, 120821,"M",1909,
      120822,"M",1897, 120823,"M",73, 120824,"M",61, 120825,"M",63,
      120826,"M",1899, 120827,"M",1901, 120828,"M",1903, 120829,"M",1905,
      120830,"M",1907, 120831,"M",1909, 120832,"V",0, 121484,"U",0,
      121499,"V",0, 121504,"U",0, 121505,"V",0, 121520,"U",0, 122624,"V",0,
      122655,"U",0, 122661,"V",0, 122667,"U",0, 122880,"V",0, 122887,"U",0,
      122888,"V",0, 122905,"U",0, 122907,"V",0, 122914,"U",0, 122915,"V",0,
      122917,"U",0, 122918,"V",0, 122923,"U",0, 122928,"M",679,
      122929,"M",681, 122930,"M",683, 122931,"M",685, 122932,"M",687,
      122933,"M",689, 122934,"M",691, 122935,"M",693, 122936,"M",695,
      122937,"M",699, 122938,"M",701, 122939,"M",703, 122940,"M",707,
      122941,"M",709, 122942,"M",711, 122943,"M",713, 122944,"M",715,
      122945,"M",717, 122946,"M",719, 122947,"M",721, 122948,"M",723,
      122949,"M",725, 122950,"M",727, 122951,"M",733, 122952,"M",737,
      122953,"M",739, 122954,"M",4843, 122955,"M",853, 122956,"M",659,
      122957,"M",663, 122958,"M",869, 122959,"M",813, 122960,"M",8068,
      122961,"M",679, 122962,"M",681, 122963,"M",683, 122964,"M",685,
      122965,"M",687, 122966,"M",689, 122967,"M",691, 122968,"M",693,
      122969,"M",695, 122970,"M",699, 122971,"M",701, 122972,"M",707,
      122973,"M",709, 122974,"M",713, 122975,"M",717, 122976,"M",719,
      122977,"M",721, 122978,"M",723, 122979,"M",725, 122980,"M",727,
      122981,"M",731, 122982,"M",733, 122983,"M",783, 122984,"M",659,
      122985,"M",657, 122986,"M",677, 122987,"M",809, 122988,"M",4805,
      122989,"M",815, 122990,"U",0, 123023,"V",0, 123024,"U",0,
      123136,"V",0, 123181,"U",0, 123184,"V",0, 123198,"U",0, 123200,"V",0,
      123210,"U",0, 123214,"V",0, 123216,"U",0, 123536,"V",0, 123567,"U",0,
      123584,"V",0, 123642,"U",0, 123647,"V",0, 123648,"U",0, 124112,"V",0,
      124154,"U",0, 124896,"V",0, 124903,"U",0, 124904,"V",0, 124908,"U",0,
      124909,"V",0, 124911,"U",0, 124912,"V",0, 124927,"U",0, 124928,"V",0,
      125125,"U",0, 125127,"V",0, 125143,"U",0, 125184,"M",8070,
      125185,"M",8072, 125186,"M",8074, 125187,"M",8076, 125188,"M",8078,
      125189,"M",8080, 125190,"M",8082, 125191,"M",8084, 125192,"M",8086,
      125193,"M",8088, 125194,"M",8090, 125195,"M",8092, 125196,"M",8094,
      125197,"M",8096, 125198,"M",8098, 125199,"M",8100, 125200,"M",8102,
      125201,"M",8104, 125202,"M",8106, 125203,"M",8108, 125204,"M",8110,
      125205,"M",8112, 125206,"M",8114, 125207,"M",8116, 125208,"M",8118,
      125209,"M",8120, 125210,"M",8122, 125211,"M",8124, 125212,"M",8126,
      125213,"M",8128, 125214,"M",8130, 125215,"M",8132, 125216,"M",8134,
      125217,"M",8136, 125218,"V",0, 125260,"U",0, 125264,"V",0,
      125274,"U",0, 125278,"V",0, 125280,"U",0, 126065,"V",0, 126133,"U",0,
      126209,"V",0, 126270,"U",0, 126464,"M",7332, 126465,"M",7334,
      126466,"M",7342, 126467,"M",7348, 126468,"U",0, 126469,"M",7386,
      126470,"M",7354, 126471,"M",7344, 126472,"M",7364, 126473,"M",7388,
      126474,"M",7376, 126475,"M",7378, 126476,"M",7380, 126477,"M",7382,
      126478,"M",7356, 126479,"M",7368, 126480,"M",7372, 126481,"M",7360,
      126482,"M",7374, 126483,"M",7352, 126484,"M",7358, 126485,"M",7338,
      126486,"M",7340, 126487,"M",7346, 126488,"M",7350, 126489,"M",7362,
      126490,"M",7366, 126491,"M",7370, 126492,"M",8138, 126493,"M",6201,
      126494,"M",8140, 126495,"M",8142, 126496,"U",0, 126497,"M",7334,
      126498,"M",7342, 126499,"U",0, 126500,"M",7384, 126501,"U",0,
      126503,"M",7344, 126504,"U",0, 126505,"M",7388, 126506,"M",7376,
      126507,"M",7378, 126508,"M",7380, 126509,"M",7382, 126510,"M",7356,
      126511,"M",7368, 126512,"M",7372, 126513,"M",7360, 126514,"M",7374,
      126515,"U",0, 126516,"M",7358, 126517,"M",7338, 126518,"M",7340,
      126519,"M",7346, 126520,"U",0, 126521,"M",7362, 126522,"U",0,
      126523,"M",7370, 126524,"U",0, 126530,"M",7342, 126531,"U",0,
      126535,"M",7344, 126536,"U",0, 126537,"M",7388, 126538,"U",0,
      126539,"M",7378, 126540,"U",0, 126541,"M",7382, 126542,"M",7356,
      126543,"M",7368, 126544,"U",0, 126545,"M",7360, 126546,"M",7374,
      126547,"U",0, 126548,"M",7358, 126549,"U",0, 126551,"M",7346,
      126552,"U",0, 126553,"M",7362, 126554,"U",0, 126555,"M",7370,
      126556,"U",0, 126557,"M",6201, 126558,"U",0, 126559,"M",8142,
      126560,"U",0, 126561,"M",7334, 126562,"M",7342, 126563,"U",0,
      126564,"M",7384, 126565,"U",0, 126567,"M",7344, 126568,"M",7364,
      126569,"M",7388, 126570,"M",7376, 126571,"U",0, 126572,"M",7380,
      126573,"M",7382, 126574,"M",7356, 126575,"M",7368, 126576,"M",7372,
      126577,"M",7360, 126578,"M",7374, 126579,"U",0, 126580,"M",7358,
      126581,"M",7338, 126582,"M",7340, 126583,"M",7346, 126584,"U",0,
      126585,"M",7362, 126586,"M",7366, 126587,"M",7370, 126588,"M",8138,
      126589,"U",0, 126590,"M",8140, 126591,"U",0, 126592,"M",7332,
      126593,"M",7334, 126594,"M",7342, 126595,"M",7348, 126596,"M",7384,
      126597,"M",7386, 126598,"M",7354, 126599,"M",7344, 126600,"M",7364,
      126601,"M",7388, 126602,"U",0, 126603,"M",7378, 126604,"M",7380,
      126605,"M",7382, 126606,"M",7356, 126607,"M",7368, 126608,"M",7372,
      126609,"M",7360, 126610,"M",7374, 126611,"M",7352, 126612,"M",7358,
      126613,"M",7338, 126614,"M",7340, 126615,"M",7346, 126616,"M",7350,
      126617,"M",7362, 126618,"M",7366, 126619,"M",7370, 126620,"U",0,
      126625,"M",7334, 126626,"M",7342, 126627,"M",7348, 126628,"U",0,
      126629,"M",7386, 126630,"M",7354, 126631,"M",7344, 126632,"M",7364,
      126633,"M",7388, 126634,"U",0, 126635,"M",7378, 126636,"M",7380,
      126637,"M",7382, 126638,"M",7356, 126639,"M",7368, 126640,"M",7372,
      126641,"M",7360, 126642,"M",7374, 126643,"M",7352, 126644,"M",7358,
      126645,"M",7338, 126646,"M",7340, 126647,"M",7346, 126648,"M",7350,
      126649,"M",7362, 126650,"M",7366, 126651,"M",7370, 126652,"U",0,
      126704,"V",0, 126706,"U",0, 126976,"V",0, 127020,"U",0, 127024,"V",0,
      127124,"U",0, 127136,"V",0, 127151,"U",0, 127153,"V",0, 127168,"U",0,
      127169,"V",0, 127184,"U",0, 127185,"V",0, 127222,"U",0, 127232,"X",0,
      127233,"M",8144, 127234,"M",8147, 127235,"M",8150, 127236,"M",8153,
      127237,"M",8156, 127238,"M",8159, 127239,"M",8162, 127240,"M",8165,
      127241,"M",8168, 127242,"M",8171, 127243,"V",0, 127248,"M",2215,
      127249,"M",2219, 127250,"M",2223, 127251,"M",2227, 127252,"M",2231,
      127253,"M",2235, 127254,"M",2239, 127255,"M",2243, 127256,"M",2247,
      127257,"M",2251, 127258,"M",2255, 127259,"M",2259, 127260,"M",2263,
      127261,"M",2267, 127262,"M",2271, 127263,"M",2275, 127264,"M",2279,
      127265,"M",2283, 127266,"M",2287, 127267,"M",2291, 127268,"M",2295,
      127269,"M",2299, 127270,"M",2303, 127271,"M",2307, 127272,"M",2311,
      127273,"M",2315, 127274,"M",8174, 127275,"M",5, 127276,"M",35,
      127277,"M",4595, 127278,"M",8178, 127279,"V",0, 127280,"M",1,
      127281,"M",3, 127282,"M",5, 127283,"M",7, 127284,"M",9, 127285,"M",11,
      127286,"M",13, 127287,"M",15, 127288,"M",17, 127289,"M",19,
      127290,"M",21, 127291,"M",23, 127292,"M",25, 127293,"M",27,
      127294,"M",29, 127295,"M",31, 127296,"M",33, 127297,"M",35,
      127298,"M",37, 127299,"M",39, 127300,"M",41, 127301,"M",43,
      127302,"M",45, 127303,"M",47, 127304,"M",49, 127305,"M",51,
      127306,"M",8181, 127307,"M",4562, 127308,"M",8184, 127309,"M",8187,
      127310,"M",8190, 127311,"M",8194, 127312,"V",0, 127338,"M",8197,
      127339,"M",8200, 127340,"M",8203, 127341,"V",0, 127376,"M",8206,
      127377,"V",0, 127406,"U",0, 127462,"V",0, 127488,"M",8209,
      127489,"M",8212, 127490,"M",3765, 127491,"U",0, 127504,"M",2694,
      127505,"M",8215, 127506,"M",8217, 127507,"M",8219, 127508,"M",2580,
      127509,"M",8221, 127510,"M",8223, 127511,"M",3218, 127512,"M",8225,
      127513,"M",8227, 127514,"M",8229, 127515,"M",5543, 127516,"M",8231,
      127517,"M",8233, 127518,"M",8235, 127519,"M",8237, 127520,"M",8239,
      127521,"M",8241, 127522,"M",2766, 127523,"M",8243, 127524,"M",8245,
      127525,"M",8247, 127526,"M",8249, 127527,"M",8251, 127528,"M",8253,
      127529,"M",2568, 127530,"M",3202, 127531,"M",8255, 127532,"M",3627,
      127533,"M",3208, 127534,"M",3629, 127535,"M",8257, 127536,"M",2878,
      127537,"M",8259, 127538,"M",8261, 127539,"M",8263, 127540,"M",8265,
      127541,"M",8267, 127542,"M",3593, 127543,"M",2714, 127544,"M",8269,
      127545,"M",8271, 127546,"M",8273, 127547,"M",8275, 127548,"U",0,
      127552,"M",8277, 127553,"M",8281, 127554,"M",8285, 127555,"M",8289,
      127556,"M",8293, 127557,"M",8297, 127558,"M",8301, 127559,"M",8305,
      127560,"M",8309, 127561,"U",0, 127568,"M",8313, 127569,"M",8315,
      127570,"U",0, 127584,"V",0, 127590,"U",0, 127744,"V",0, 128728,"U",0,
      128732,"V",0, 128749,"U",0, 128752,"V",0, 128765,"U",0, 128768,"V",0,
      128887,"U",0, 128891,"V",0, 128986,"U",0, 128992,"V",0, 129004,"U",0,
      129008,"V",0, 129009,"U",0, 129024,"V",0, 129036,"U",0, 129040,"V",0,
      129096,"U",0, 129104,"V",0, 129114,"U",0, 129120,"V",0, 129160,"U",0,
      129168,"V",0, 129198,"U",0, 129200,"V",0, 129202,"U",0, 129280,"V",0,
      129620,"U",0, 129632,"V",0, 129646,"U",0, 129648,"V",0, 129661,"U",0,
      129664,"V",0, 129673,"U",0, 129680,"V",0, 129726,"U",0, 129727,"V",0,
      129734,"U",0, 129742,"V",0, 129756,"U",0, 129760,"V",0, 129769,"U",0,
      129776,"V",0, 129785,"U",0, 129792,"V",0, 129939,"U",0, 129940,"V",0,
      129995,"U",0, 130032,"M",1897, 130033,"M",73, 130034,"M",61,
      130035,"M",63, 130036,"M",1899, 130037,"M",1901, 130038,"M",1903,
      130039,"M",1905, 130040,"M",1907, 130041,"M",1909, 130042,"U",0,
      131070,"X",0, 131072,"V",0, 173792,"U",0, 173824,"V",0, 177978,"U",0,
      177984,"V",0, 178206,"U",0, 178208,"V",0, 183970,"U",0, 183984,"V",0,
      191457,"U",0, 194560,"M",8317, 194561,"M",8319, 194562,"M",8321,
      194563,"M",8323, 194564,"M",8325, 194565,"M",5729, 194566,"M",8327,
      194567,"M",8329, 194568,"M",8331, 194569,"M",8333, 194570,"M",5731,
      194571,"M",8335, 194572,"M",8337, 194573,"M",8339, 194574,"M",5733,
      194575,"M",8341, 194576,"M",8343, 194577,"M",8345, 194578,"M",8347,
      194579,"M",8349, 194580,"M",8351, 194581,"M",8235, 194582,"M",8353,
      194583,"M",8355, 194584,"M",8357, 194585,"M",8359, 194586,"M",8361,
      194587,"M",5843, 194588,"M",8363, 194589,"M",2600, 194590,"M",8365,
      194591,"M",8367, 194592,"M",8369, 194593,"M",8371, 194594,"M",8271,
      194595,"M",8373, 194596,"M",8375, 194597,"M",5853, 194598,"M",5735,
      194599,"M",5737, 194600,"M",5855, 194601,"M",8377, 194602,"M",8379,
      194603,"M",5371, 194604,"M",8381, 194605,"M",5739, 194606,"M",8383,
      194607,"M",8385, 194608,"M",8387, 194609,"M",8389, 194612,"M",8391,
      194613,"M",8393, 194614,"M",8395, 194615,"M",8397, 194616,"M",8399,
      194617,"M",8401, 194618,"M",8403, 194619,"M",8405, 194620,"M",8407,
      194621,"M",8409, 194622,"M",8411, 194623,"M",8413, 194624,"M",8415,
      194625,"M",8417, 194626,"M",8419, 194627,"M",8421, 194628,"M",8423,
      194629,"M",8425, 194631,"M",5859, 194632,"M",8427, 194633,"M",8429,
      194634,"M",8431, 194635,"M",8433, 194636,"M",5743, 194637,"M",8435,
      194638,"M",8437, 194639,"M",8439, 194640,"M",5663, 194641,"M",8441,
      194642,"M",8443, 194643,"M",8445, 194644,"M",8447, 194645,"M",8449,
      194646,"M",8451, 194647,"M",8453, 194648,"M",8455, 194649,"M",8457,
      194650,"M",8459, 194651,"M",8461, 194652,"M",8463, 194653,"M",8221,
      194654,"M",8465, 194655,"M",8467, 194656,"M",8469, 194657,"M",8471,
      194658,"M",8473, 194659,"M",8475, 194660,"M",8477, 194661,"M",8479,
      194662,"M",8481, 194663,"M",8483, 194664,"U",0, 194665,"M",8485,
      194666,"M",8487, 194668,"M",8489, 194669,"M",8491, 194670,"M",8493,
      194671,"M",5363, 194672,"M",8495, 194673,"M",8497, 194674,"M",8499,
      194675,"M",8501, 194676,"U",0, 194677,"M",2652, 194678,"M",8503,
      194679,"M",8505, 194680,"M",2656, 194681,"M",8507, 194682,"M",8509,
      194683,"M",8511, 194684,"M",8513, 194685,"M",8515, 194686,"M",8517,
      194687,"M",8519, 194688,"M",8521, 194689,"M",8523, 194690,"M",8525,
      194691,"M",8527, 194692,"M",8529, 194693,"M",8531, 194694,"M",8533,
      194695,"M",8535, 194696,"M",8537, 194697,"M",8539, 194698,"M",8541,
      194699,"M",8543, 194700,"M",8545, 194701,"M",8547, 194702,"M",5259,
      194703,"M",8549, 194704,"M",2676, 194705,"M",8551, 194707,"M",8553,
      194708,"M",8555, 194710,"M",8557, 194711,"M",8559, 194712,"M",8561,
      194713,"M",8563, 194714,"M",8565, 194715,"M",8567, 194716,"M",8569,
      194717,"M",8571, 194718,"M",8573, 194719,"M",8575, 194720,"M",8577,
      194721,"M",8579, 194722,"M",8581, 194723,"M",5753, 194724,"M",8583,
      194725,"M",8585, 194726,"M",8587, 194727,"M",8589, 194728,"M",5883,
      194729,"M",8589, 194730,"M",8591, 194731,"M",5757, 194732,"M",8593,
      194733,"M",8595, 194734,"M",8597, 194735,"M",8599, 194736,"M",5759,
      194737,"M",5205, 194738,"M",8601, 194739,"M",8603, 194740,"M",8605,
      194741,"M",8607, 194742,"M",8609, 194743,"M",8611, 194744,"M",8613,
      194745,"M",8615, 194746,"M",8617, 194747,"M",8619, 194748,"M",8621,
      194749,"M",8623, 194750,"M",8625, 194751,"M",8627, 194752,"M",8629,
      194753,"M",8631, 194754,"M",8633, 194755,"M",8635, 194756,"M",8637,
      194757,"M",8639, 194758,"M",8641, 194759,"M",8643, 194760,"M",5761,
      194761,"M",8645, 194762,"M",8647, 194763,"M",8649, 194764,"M",8651,
      194765,"M",8653, 194766,"M",8655, 194767,"M",5765, 194768,"M",8657,
      194769,"M",8659, 194770,"M",8661, 194771,"M",8663, 194772,"M",8665,
      194773,"M",8667, 194774,"M",8669, 194775,"M",8671, 194776,"M",5261,
      194777,"M",5899, 194778,"M",8673, 194779,"M",8675, 194780,"M",8677,
      194781,"M",8679, 194782,"M",8681, 194783,"M",8683, 194784,"M",8685,
      194785,"M",8687, 194786,"M",5767, 194787,"M",8689, 194788,"M",8691,
      194789,"M",8693, 194790,"M",8695, 194791,"M",5983, 194792,"M",8697,
      194793,"M",8699, 194794,"M",8701, 194795,"M",8703, 194796,"M",8705,
      194797,"M",8707, 194798,"M",8709, 194799,"M",8711, 194800,"M",8713,
      194801,"M",8715, 194802,"M",8717, 194803,"M",8719, 194804,"M",8721,
      194805,"M",5397, 194806,"M",8723, 194807,"M",8725, 194808,"M",8727,
      194809,"M",8729, 194810,"M",8731, 194811,"M",8733, 194812,"M",8735,
      194813,"M",8737, 194814,"M",8739, 194815,"M",8741, 194816,"M",8743,
      194817,"M",5769, 194818,"M",5563, 194819,"M",8745, 194820,"M",8747,
      194821,"M",8749, 194822,"M",8751, 194823,"M",8753, 194824,"M",8755,
      194825,"M",8757, 194826,"M",8759, 194827,"M",5905, 194828,"M",8761,
      194829,"M",8763, 194830,"M",8765, 194831,"M",8767, 194832,"M",8769,
      194833,"M",8771, 194834,"M",8773, 194835,"M",8775, 194836,"M",5907,
      194837,"M",8777, 194838,"M",8779, 194839,"M",8781, 194840,"M",8783,
      194841,"M",8785, 194842,"M",8787, 194843,"M",8789, 194844,"M",8791,
      194845,"M",8793, 194846,"M",8795, 194847,"U",0, 194848,"M",8797,
      194849,"M",5911, 194850,"M",8799, 194851,"M",8801, 194852,"M",8803,
      194853,"M",8805, 194854,"M",8807, 194855,"M",8809, 194856,"M",8811,
      194857,"M",8813, 194858,"M",8815, 194859,"M",8817, 194860,"M",8819,
      194862,"M",8821, 194863,"M",8823, 194864,"M",5915, 194865,"M",8825,
      194866,"M",8827, 194867,"M",8829, 194868,"M",8831, 194869,"M",8833,
      194870,"M",8835, 194871,"M",8837, 194872,"M",5369, 194873,"M",8839,
      194874,"M",8841, 194875,"M",8843, 194876,"M",8845, 194877,"M",8847,
      194878,"M",8849, 194879,"M",8851, 194880,"M",5927, 194881,"M",8853,
      194882,"M",8855, 194883,"M",8857, 194884,"M",8859, 194885,"M",8861,
      194886,"M",8863, 194888,"M",5929, 194889,"M",5987, 194890,"M",8865,
      194891,"M",8867, 194892,"M",8869, 194893,"M",8871, 194894,"M",8873,
      194895,"M",5295, 194896,"M",5933, 194897,"M",8875, 194898,"M",8877,
      194899,"M",5789, 194900,"M",8879, 194901,"M",8881, 194902,"M",5703,
      194903,"M",8883, 194904,"M",8885, 194905,"M",5795, 194906,"M",8887,
      194907,"M",8889, 194908,"M",8891, 194909,"M",8893, 194911,"U",0,
      194912,"M",8895, 194913,"M",8897, 194914,"M",8899, 194915,"M",8901,
      194916,"M",8903, 194917,"M",8905, 194918,"M",8907, 194919,"M",8909,
      194920,"M",8911, 194921,"M",8913, 194922,"M",8915, 194923,"M",8917,
      194924,"M",8919, 194925,"M",8921, 194926,"M",8923, 194927,"M",8925,
      194928,"M",8927, 194929,"M",8929, 194930,"M",8931, 194931,"M",8933,
      194932,"M",8935, 194933,"M",8937, 194934,"M",8939, 194935,"M",8941,
      194936,"M",8943, 194937,"M",8945, 194938,"M",5807, 194939,"M",8947,
      194940,"M",8949, 194941,"M",8951, 194942,"M",8953, 194943,"M",8955,
      194944,"M",8957, 194945,"M",8959, 194946,"M",8961, 194947,"M",8963,
      194948,"M",8965, 194949,"M",8967, 194950,"M",8969, 194951,"M",8971,
      194952,"M",8973, 194953,"M",8975, 194954,"M",8977, 194955,"M",8553,
      194956,"M",8979, 194957,"M",8981, 194958,"M",8983, 194959,"M",8985,
      194960,"M",8987, 194961,"M",8989, 194962,"M",8991, 194963,"M",8993,
      194964,"M",8995, 194965,"M",8997, 194966,"M",8999, 194967,"M",9001,
      194968,"M",5403, 194969,"M",9003, 194970,"M",9005, 194971,"M",9007,
      194972,"M",9009, 194973,"M",9011, 194974,"M",9013, 194975,"M",5813,
      194976,"M",9015, 194977,"M",9017, 194978,"M",9019, 194979,"M",9021,
      194980,"M",9023, 194981,"M",9025, 194982,"M",9027, 194983,"M",9029,
      194984,"M",9031, 194985,"M",9033, 194986,"M",9035, 194987,"M",9037,
      194988,"M",9039, 194989,"M",9041, 194990,"M",9043, 194991,"M",9045,
      194992,"M",9047, 194993,"M",9049, 194994,"M",9051, 194995,"M",9053,
      194996,"M",5285, 194997,"M",9055, 194998,"M",9057, 194999,"M",9059,
      195000,"M",9061, 195001,"M",9063, 195002,"M",9065, 195003,"M",5947,
      195004,"M",9067, 195005,"M",9069, 195006,"M",9071, 195007,"U",0,
      195008,"M",9073, 195009,"M",9075, 195010,"M",9077, 195011,"M",9079,
      195012,"M",2856, 195013,"M",9081, 195014,"M",9083, 195015,"M",9085,
      195016,"M",9087, 195017,"M",9089, 195018,"M",9091, 195019,"M",9093,
      195020,"M",9095, 195021,"M",9097, 195022,"M",9099, 195023,"M",9101,
      195024,"M",5957, 195025,"M",5959, 195026,"M",2870, 195027,"M",9103,
      195028,"M",9105, 195029,"M",9107, 195030,"M",9109, 195031,"M",9111,
      195032,"M",9113, 195033,"M",9115, 195034,"M",9117, 195035,"M",9119,
      195036,"M",9121, 195037,"M",9123, 195038,"M",9125, 195039,"M",5961,
      195040,"M",9127, 195041,"M",9129, 195042,"M",9131, 195043,"M",9133,
      195044,"M",9135, 195045,"M",9137, 195046,"M",9139, 195047,"M",9141,
      195048,"M",9143, 195049,"M",9145, 195050,"M",9147, 195051,"M",9149,
      195052,"M",9151, 195053,"M",9153, 195054,"M",9155, 195055,"M",9157,
      195056,"M",9159, 195057,"M",9161, 195058,"M",9163, 195059,"M",9165,
      195060,"M",9167, 195061,"M",9169, 195062,"M",9171, 195063,"M",9173,
      195064,"M",9175, 195065,"M",9177, 195066,"M",9179, 195067,"M",9181,
      195068,"M",9183, 195069,"M",9185, 195070,"M",5973, 195072,"M",9187,
      195073,"M",9189, 195074,"M",9191, 195075,"M",9193, 195076,"M",9195,
      195077,"M",9197, 195078,"M",9199, 195079,"M",9201, 195080,"M",9203,
      195081,"M",9205, 195082,"M",5975, 195083,"M",9207, 195084,"M",9209,
      195085,"M",9211, 195086,"M",9213, 195087,"M",9215, 195088,"M",9217,
      195089,"M",9219, 195090,"M",9221, 195091,"M",9223, 195092,"M",9225,
      195093,"M",2966, 195094,"M",9227, 195095,"M",2974, 195096,"M",9229,
      195097,"M",9231, 195098,"M",9233, 195099,"M",9235, 195100,"M",2984,
      195101,"M",9237, 195102,"U",0, 196606,"X",0, 196608,"V",0,
      201547,"U",0, 201552,"V",0, 205744,"U",0, 262142,"X",0, 262144,"U",0,
      327678,"X",0, 327680,"U",0, 393214,"X",0, 393216,"U",0, 458750,"X",0,
      458752,"U",0, 524286,"X",0, 524288,"U",0, 589822,"X",0, 589824,"U",0,
      655358,"X",0, 655360,"U",0, 720894,"X",0, 720896,"U",0, 786430,"X",0,
      786432,"U",0, 851966,"X",0, 851968,"U",0, 917502,"X",0, 917504,"U",0,
      917505,"X",0, 917506,"U",0, 917536,"X",0, 917632,"U",0, 917760,"I",0,
      918000,"U",0, 983038,"X",0>>

\* What the mapped code points map to, one after the other: the length
\* of a mapping, then its code points.
Uts46Mappings ==
    <<1,97, 1,98, 1,99, 1,100, 1,101, 1,102, 1,103, 1,104, 1,105, 1,106,
      1,107, 1,108, 1,109, 1,110, 1,111, 1,112, 1,113, 1,114, 1,115, 1,116,
      1,117, 1,118, 1,119, 1,120, 1,121, 1,122, 1,32, 2,32,776, 2,32,772,
      1,50, 1,51, 2,32,769, 1,956, 2,32,807, 1,49, 3,49,8260,52,
      3,49,8260,50, 3,51,8260,52, 1,224, 1,225, 1,226, 1,227, 1,228, 1,229,
      1,230, 1,231, 1,232, 1,233, 1,234, 1,235, 1,236, 1,237, 1,238, 1,239,
      1,240, 1,241, 1,242, 1,243, 1,244, 1,245, 1,246, 1,248, 1,249, 1,250,
      1,251, 1,252, 1,253, 1,254, 1,257, 1,259, 1,261, 1,263, 1,265, 1,267,
      1,269, 1,271, 1,273, 1,275, 1,277, 1,279, 1,281, 1,283, 1,285, 1,287,
      1,289, 1,291, 1,293, 1,295, 1,297, 1,299, 1,301, 1,303, 2,105,775,
      2,105,106, 1,309, 1,311, 1,314, 1,316, 1,318, 2,108,183, 1,322, 1,324,
      1,326, 1,328, 2,700,110, 1,331, 1,333, 1,335, 1,337, 1,339, 1,341,
      1,343, 1,345, 1,347, 1,349, 1,351, 1,353, 1,355, 1,357, 1,359, 1,361,
      1,363, 1,365, 1,367, 1,369, 1,371, 1,373, 1,375, 1,255, 1,378, 1,380,
      1,382, 1,595, 1,387, 1,389, 1,596, 1,392, 1,598, 1,599, 1,396, 1,477,
      1,601, 1,603, 1,402, 1,608, 1,611, 1,617, 1,616, 1,409, 1,623, 1,626,
      1,629, 1,417, 1,419, 1,421, 1,640, 1,424, 1,643, 1,429, 1,648, 1,432,
      1,650, 1,651, 1,436, 1,438, 1,658, 1,441, 1,445, 2,100,382, 2,108,106,
      2,110,106, 1,462, 1,464, 1,466, 1,468, 1,470, 1,472, 1,474, 1,476,
      1,479, 1,481, 1,483, 1,485, 1,487, 1,489, 1,491, 1,493, 1,495,
      2,100,122, 1,501, 1,405, 1,447, 1,505, 1,507, 1,509, 1,511, 1,513,
      1,515, 1,517, 1,519, 1,521, 1,523, 1,525, 1,527, 1,529, 1,531, 1,533,
      1,535, 1,537, 1,539, 1,541, 1,543, 1,414, 1,547, 1,549, 1,551, 1,553,
      1,555, 1,557, 1,559, 1,561, 1,563, 1,11365, 1,572, 1,410, 1,11366,
      1,578, 1,384, 1,649, 1,652, 1,583, 1,585, 1,587, 1,589, 1,591, 1,614,
      1,633, 1,635, 1,641, 2,32,774, 2,32,775, 2,32,778, 2,32,808, 2,32,771,
      2,32,779, 1,661, 1,768, 1,769, 1,787, 2,776,769, 1,953, 1,881, 1,883,
      1,697, 1,887, 2,32,953, 1,59, 1,1011, 3,32,776,769, 1,940, 1,183,
      1,941, 1,942, 1,943, 1,972, 1,973, 1,974, 1,945, 1,946, 1,947, 1,948,
      1,949, 1,950, 1,951, 1,952, 1,954, 1,955, 1,957, 1,958, 1,959, 1,960,
      1,961, 1,963, 1,964, 1,965, 1,966, 1,967, 1,968, 1,969, 1,970, 1,971,
      1,983, 1,985, 1,987, 1,989, 1,991, 1,993, 1,995, 1,997, 1,999, 1,1001,
      1,1003, 1,1005, 1,1007, 1,1016, 1,1019, 1,891, 1,892, 1,893, 1,1104,
      1,1105, 1,1106, 1,1107, 1,1108, 1,1109, 1,1110, 1,1111, 1,1112,
      1,1113, 1,1114, 1,1115, 1,1116, 1,1117, 1,1118, 1,1119, 1,1072,
      1,1073, 1,1074, 1,1075, 1,1076, 1,1077, 1,1078, 1,1079, 1,1080,
      1,1081, 1,1082, 1,1083, 1,1084, 1,1085, 1,1086, 1,1087, 1,1088,
      1,1089, 1,1090, 1,1091, 1,1092, 1,1093, 1,1094, 1,1095, 1,1096,
      1,1097, 1,1098, 1,1099, 1,1100, 1,1101, 1,1102, 1,1103, 1,1121,
      1,1123, 1,1125, 1,1127, 1,1129, 1,1131, 1,1133, 1,1135, 1,1137,
      1,1139, 1,1141, 1,1143, 1,1145, 1,1147, 1,1149, 1,1151, 1,1153,
      1,1163, 1,1165, 1,1167, 1,1169, 1,1171, 1,1173, 1,1175, 1,1177,
      1,1179, 1,1181, 1,1183, 1,1185, 1,1187, 1,1189, 1,1191, 1,1193,
      1,1195, 1,1197, 1,1199, 1,1201, 1,1203, 1,1205, 1,1207, 1,1209,
      1,1211, 1,1213, 1,1215, 1,1218, 1,1220, 1,1222, 1,1224, 1,1226,
      1,1228, 1,1230, 1,1233, 1,1235, 1,1237, 1,1239, 1,1241, 1,1243,
      1,1245, 1,1247, 1,1249, 1,1251, 1,1253, 1,1255, 1,1257, 1,1259,
      1,1261, 1,1263, 1,1265, 1,1267, 1,1269, 1,1271, 1,1273, 1,1275,
      1,1277, 1,1279, 1,1281, 1,1283, 1,1285, 1,1287, 1,1289, 1,1291,
      1,1293, 1,1295, 1,1297, 1,1299, 1,1301, 1,1303, 1,1305, 1,1307,
      1,1309, 1,1311, 1,1313, 1,1315, 1,1317, 1,1319, 1,1321, 1,1323,
      1,1325, 1,1327, 1,1377, 1,1378, 1,1379, 1,1380, 1,1381, 1,1382,
      1,1383, 1,1384, 1,1385, 1,1386, 1,1387, 1,1388, 1,1389, 1,1390,
      1,1391, 1,1392, 1,1393, 1,1394, 1,1395, 1,1396, 1,1397, 1,1398,
      1,1399, 1,1400, 1,1401, 1,1402, 1,1403, 1,1404, 1,1405, 1,1406,
      1,1407, 1,1408, 1,1409, 1,1410, 1,1411, 1,1412, 1,1413, 1,1414,
      2,1381,1410, 2,1575,1652, 2,1608,1652, 2,1735,1652, 2,1610,1652,
      2,2325,2364, 2,2326,2364, 2,2327,2364, 2,2332,2364, 2,2337,2364,
      2,2338,2364, 2,2347,2364, 2,2351,2364, 2,2465,2492, 2,2466,2492,
      2,2479,2492, 2,2610,2620, 2,2616,2620, 2,2582,2620, 2,2583,2620,
      2,2588,2620, 2,2603,2620, 2,2849,2876, 2,2850,2876, 2,3661,3634,
      2,3789,3762, 2,3755,3737, 2,3755,3745, 1,3851, 2,3906,4023,
      2,3916,4023, 2,3921,4023, 2,3926,4023, 2,3931,4023, 2,3904,4021,
      2,3953,3954, 2,3953,3956, 2,4018,3968, 3,4018,3953,3968, 2,4019,3968,
      3,4019,3953,3968, 2,3953,3968, 2,3986,4023, 2,3996,4023, 2,4001,4023,
      2,4006,4023, 2,4011,4023, 2,3984,4021, 1,11559, 1,11565, 1,4316,
      1,5104, 1,5105, 1,5106, 1,5107, 1,5108, 1,5109, 1,42571, 1,4304,
      1,4305, 1,4306, 1,4307, 1,4308, 1,4309, 1,4310, 1,4311, 1,4312,
      1,4313, 1,4314, 1,4315, 1,4317, 1,4318, 1,4319, 1,4320, 1,4321,
      1,4322, 1,4323, 1,4324, 1,4325, 1,4326, 1,4327, 1,4328, 1,4329,
      1,4330, 1,4331, 1,4332, 1,4333, 1,4334, 1,4335, 1,4336, 1,4337,
      1,4338, 1,4339, 1,4340, 1,4341, 1,4342, 1,4343, 1,4344, 1,4345,
      1,4346, 1,4349, 1,4350, 1,4351, 1,592, 1,593, 1,7426, 1,604, 1,7446,
      1,7447, 1,7453, 1,7461, 1,594, 1,597, 1,607, 1,609, 1,613, 1,618,
      1,7547, 1,669, 1,621, 1,7557, 1,671, 1,625, 1,624, 1,627, 1,628,
      1,632, 1,642, 1,427, 1,7452, 1,656, 1,657, 1,7681, 1,7683, 1,7685,
      1,7687, 1,7689, 1,7691, 1,7693, 1,7695, 1,7697, 1,7699, 1,7701,
      1,7703, 1,7705, 1,7707, 1,7709, 1,7711, 1,7713, 1,7715, 1,7717,
      1,7719, 1,7721, 1,7723, 1,7725, 1,7727, 1,7729, 1,7731, 1,7733,
      1,7735, 1,7737, 1,7739, 1,7741, 1,7743, 1,7745, 1,7747, 1,7749,
      1,7751, 1,7753, 1,7755, 1,7757, 1,7759, 1,7761, 1,7763, 1,7765,
      1,7767, 1,7769, 1,7771, 1,7773, 1,7775, 1,7777, 1,7779, 1,7781,
      1,7783, 1,7785, 1,7787, 1,7789, 1,7791, 1,7793, 1,7795, 1,7797,
      1,7799, 1,7801, 1,7803, 1,7805, 1,7807, 1,7809, 1,7811, 1,7813,
      1,7815, 1,7817, 1,7819, 1,7821, 1,7823, 1,7825, 1,7827, 1,7829,
      2,97,702, 1,7841, 1,7843, 1,7845, 1,7847, 1,7849, 1,7851, 1,7853,
      1,7855, 1,7857, 1,7859, 1,7861, 1,7863, 1,7865, 1,7867, 1,7869,
      1,7871, 1,7873, 1,7875, 1,7877, 1,7879, 1,7881, 1,7883, 1,7885,
      1,7887, 1,7889, 1,7891, 1,7893, 1,7895, 1,7897, 1,7899, 1,7901,
      1,7903, 1,7905, 1,7907, 1,7909, 1,7911, 1,7913, 1,7915, 1,7917,
      1,7919, 1,7921, 1,7923, 1,7925, 1,7927, 1,7929, 1,7931, 1,7933,
      1,7935, 1,7936, 1,7937, 1,7938, 1,7939, 1,7940, 1,7941, 1,7942,
      1,7943, 1,7952, 1,7953, 1,7954, 1,7955, 1,7956, 1,7957, 1,7968,
      1,7969, 1,7970, 1,7971, 1,7972, 1,7973, 1,7974, 1,7975, 1,7984,
      1,7985, 1,7986, 1,7987, 1,7988, 1,7989, 1,7990, 1,7991, 1,8000,
      1,8001, 1,8002, 1,8003, 1,8004, 1,8005, 1,8017, 1,8019, 1,8021,
      1,8023, 1,8032, 1,8033, 1,8034, 1,8035, 1,8036, 1,8037, 1,8038,
      1,8039, 2,7936,953, 2,7937,953, 2,7938,953, 2,7939,953, 2,7940,953,
      2,7941,953, 2,7942,953, 2,7943,953, 2,7968,953, 2,7969,953,
      2,7970,953, 2,7971,953, 2,7972,953, 2,7973,953, 2,7974,953,
      2,7975,953, 2,8032,953, 2,8033,953, 2,8034,953, 2,8035,953,
      2,8036,953, 2,8037,953, 2,8038,953, 2,8039,953, 2,8048,953, 2,945,953,
      2,940,953, 2,8118,953, 1,8112, 1,8113, 1,8048, 2,32,787, 2,32,834,
      3,32,776,834, 2,8052,953, 2,951,953, 2,942,953, 2,8134,953, 1,8050,
      1,8052, 3,32,787,768, 3,32,787,769, 3,32,787,834, 1,912, 1,8144,
      1,8145, 1,8054, 3,32,788,768, 3,32,788,769, 3,32,788,834, 1,944,
      1,8160, 1,8161, 1,8058, 1,8165, 3,32,776,768, 1,96, 2,8060,953,
      2,969,953, 2,974,953, 2,8182,953, 1,8056, 1,8060, 2,32,788, 1,8208,
      2,32,819, 2,8242,8242, 3,8242,8242,8242, 2,8245,8245,
      3,8245,8245,8245, 2,33,33, 2,32,773, 2,63,63, 2,63,33, 2,33,63,
      4,8242,8242,8242,8242, 1,48, 1,52, 1,53, 1,54, 1,55, 1,56, 1,57, 1,43,
      1,8722, 1,61, 1,40, 1,41, 2,114,115, 3,97,47,99, 3,97,47,115,
      2,176,99, 3,99,47,111, 3,99,47,117, 2,176,102, 2,110,111, 2,115,109,
      3,116,101,108, 2,116,109, 1,1488, 1,1489, 1,1490, 1,1491,
      3,102,97,120, 1,8721, 3,49,8260,55, 3,49,8260,57, 4,49,8260,49,48,
      3,49,8260,51, 3,50,8260,51, 3,49,8260,53, 3,50,8260,53, 3,51,8260,53,
      3,52,8260,53, 3,49,8260,54, 3,53,8260,54, 3,49,8260,56, 3,51,8260,56,
      3,53,8260,56, 3,55,8260,56, 2,49,8260, 2,105,105, 3,105,105,105,
      2,105,118, 2,118,105, 3,118,105,105, 4,118,105,105,105, 2,105,120,
      2,120,105, 3,120,105,105, 3,48,8260,51, 2,8747,8747, 3,8747,8747,8747,
      2,8750,8750, 3,8750,8750,8750, 1,12296, 1,12297, 2,49,48, 2,49,49,
      2,49,50, 2,49,51, 2,49,52, 2,49,53, 2,49,54, 2,49,55, 2,49,56,
      2,49,57, 2,50,48, 3,40,49,41, 3,40,50,41, 3,40,51,41, 3,40,52,41,
      3,40,53,41, 3,40,54,41, 3,40,55,41, 3,40,56,41, 3,40,57,41,
      4,40,49,48,41, 4,40,49,49,41, 4,40,49,50,41, 4,40,49,51,41,
      4,40,49,52,41, 4,40,49,53,41, 4,40,49,54,41, 4,40,49,55,41,
      4,40,49,56,41, 4,40,49,57,41, 4,40,50,48,41, 3,40,97,41, 3,40,98,41,
      3,40,99,41, 3,40,100,41, 3,40,101,41, 3,40,102,41, 3,40,103,41,
      3,40,104,41, 3,40,105,41, 3,40,106,41, 3,40,107,41, 3,40,108,41,
      3,40,109,41, 3,40,110,41, 3,40,111,41, 3,40,112,41, 3,40,113,41,
      3,40,114,41, 3,40,115,41, 3,40,116,41, 3,40,117,41, 3,40,118,41,
      3,40,119,41, 3,40,120,41, 3,40,121,41, 3,40,122,41,
      4,8747,8747,8747,8747, 3,58,58,61, 2,61,61, 3,61,61,61, 2,10973,824,
      1,11312, 1,11313, 1,11314, 1,11315, 1,11316, 1,11317, 1,11318,
      1,11319, 1,11320, 1,11321, 1,11322, 1,11323, 1,11324, 1,11325,
      1,11326, 1,11327, 1,11328, 1,11329, 1,11330, 1,11331, 1,11332,
      1,11333, 1,11334, 1,11335, 1,11336, 1,11337, 1,11338, 1,11339,
      1,11340, 1,11341, 1,11342, 1,11343, 1,11344, 1,11345, 1,11346,
      1,11347, 1,11348, 1,11349, 1,11350, 1,11351, 1,11352, 1,11353,
      1,11354, 1,11355, 1,11356, 1,11357, 1,11358, 1,11359, 1,11361, 1,619,
      1,7549, 1,637, 1,11368, 1,11370, 1,11372, 1,11379, 1,11382, 1,575,
      1,576, 1,11393, 1,11395, 1,11397, 1,11399, 1,11401, 1,11403, 1,11405,
      1,11407, 1,11409, 1,11411, 1,11413, 1,11415, 1,11417, 1,11419,
      1,11421, 1,11423, 1,11425, 1,11427, 1,11429, 1,11431, 1,11433,
      1,11435, 1,11437, 1,11439, 1,11441, 1,11443, 1,11445, 1,11447,
      1,11449, 1,11451, 1,11453, 1,11455, 1,11457, 1,11459, 1,11461,
      1,11463, 1,11465, 1,11467, 1,11469, 1,11471, 1,11473, 1,11475,
      1,11477, 1,11479, 1,11481, 1,11483, 1,11485, 1,11487, 1,11489,
      1,11491, 1,11500, 1,11502, 1,11507, 1,11617, 1,27597, 1,40863,
      1,19968, 1,20008, 1,20022, 1,20031, 1,20057, 1,20101, 1,20108,
      1,20128, 1,20154, 1,20799, 1,20837, 1,20843, 1,20866, 1,20886,
      1,20907, 1,20960, 1,20981, 1,20992, 1,21147, 1,21241, 1,21269,
      1,21274, 1,21304, 1,21313, 1,21340, 1,21353, 1,21378, 1,21430,
      1,21448, 1,21475, 1,22231, 1,22303, 1,22763, 1,22786, 1,22794,
      1,22805, 1,22823, 1,22899, 1,23376, 1,23424, 1,23544, 1,23567,
      1,23586, 1,23608, 1,23662, 1,23665, 1,24027, 1,24037, 1,24049,
      1,24062, 1,24178, 1,24186, 1,24191, 1,24308, 1,24318, 1,24331,
      1,24339, 1,24400, 1,24417, 1,24435, 1,24515, 1,25096, 1,25142,
      1,25163, 1,25903, 1,25908, 1,25991, 1,26007, 1,26020, 1,26041,
      1,26080, 1,26085, 1,26352, 1,26376, 1,26408, 1,27424, 1,27490,
      1,27513, 1,27571, 1,27595, 1,27604, 1,27611, 1,27663, 1,27668,
      1,27700, 1,28779, 1,29226, 1,29238, 1,29243, 1,29247, 1,29255,
      1,29273, 1,29275, 1,29356, 1,29572, 1,29577, 1,29916, 1,29926,
      1,29976, 1,29983, 1,29992, 1,30000, 1,30091, 1,30098, 1,30326,
      1,30333, 1,30382, 1,30399, 1,30446, 1,30683, 1,30690, 1,30707,
      1,31034, 1,31160, 1,31166, 1,31348, 1,31435, 1,31481, 1,31859,
      1,31992, 1,32566, 1,32593, 1,32650, 1,32701, 1,32769, 1,32780,
      1,32786, 1,32819, 1,32895, 1,32905, 1,33251, 1,33258, 1,33267,
      1,33276, 1,33292, 1,33307, 1,33311, 1,33390, 1,33394, 1,33400,
      1,34381, 1,34411, 1,34880, 1,34892, 1,34915, 1,35198, 1,35211,
      1,35282, 1,35328, 1,35895, 1,35910, 1,35925, 1,35960, 1,35997,
      1,36196, 1,36208, 1,36275, 1,36523, 1,36554, 1,36763, 1,36784,
      1,36789, 1,37009, 1,37193, 1,37318, 1,37324, 1,37329, 1,38263,
      1,38272, 1,38428, 1,38582, 1,38585, 1,38632, 1,38737, 1,38750,
      1,38754, 1,38761, 1,38859, 1,38893, 1,38899, 1,38913, 1,39080,
      1,39131, 1,39135, 1,39318, 1,39321, 1,39340, 1,39592, 1,39640,
      1,39647, 1,39717, 1,39727, 1,39730, 1,39740, 1,39770, 1,40165,
      1,40565, 1,40575, 1,40613, 1,40635, 1,40643, 1,40653, 1,40657,
      1,40697, 1,40701, 1,40718, 1,40723, 1,40736, 1,40763, 1,40778,
      1,40786, 1,40845, 1,40860, 1,40864, 1,46, 1,12306, 1,21316, 1,21317,
      2,32,12441, 2,32,12442, 2,12424,12426, 2,12467,12488, 1,4352, 1,4353,
      1,4522, 1,4354, 1,4524, 1,4525, 1,4355, 1,4356, 1,4357, 1,4528,
      1,4529, 1,4530, 1,4531, 1,4532, 1,4533, 1,4378, 1,4358, 1,4359,
      1,4360, 1,4385, 1,4361, 1,4362, 1,4363, 1,4364, 1,4365, 1,4366,
      1,4367, 1,4368, 1,4369, 1,4370, 1,4449, 1,4450, 1,4451, 1,4452,
      1,4453, 1,4454, 1,4455, 1,4456, 1,4457, 1,4458, 1,4459, 1,4460,
      1,4461, 1,4462, 1,4463, 1,4464, 1,4465, 1,4466, 1,4467, 1,4468,
      1,4469, 1,4372, 1,4373, 1,4551, 1,4552, 1,4556, 1,4558, 1,4563,
      1,4567, 1,4569, 1,4380, 1,4573, 1,4575, 1,4381, 1,4382, 1,4384,
      1,4386, 1,4387, 1,4391, 1,4393, 1,4395, 1,4396, 1,4397, 1,4398,
      1,4399, 1,4402, 1,4406, 1,4416, 1,4423, 1,4428, 1,4593, 1,4594,
      1,4439, 1,4440, 1,4441, 1,4484, 1,4485, 1,4488, 1,4497, 1,4498,
      1,4500, 1,4510, 1,4513, 1,19977, 1,22235, 1,19978, 1,20013, 1,19979,
      1,30002, 1,19993, 1,19969, 1,22825, 1,22320, 3,40,4352,41,
      3,40,4354,41, 3,40,4355,41, 3,40,4357,41, 3,40,4358,41, 3,40,4359,41,
      3,40,4361,41, 3,40,4363,41, 3,40,4364,41, 3,40,4366,41, 3,40,4367,41,
      3,40,4368,41, 3,40,4369,41, 3,40,4370,41, 3,40,44032,41,
      3,40,45208,41, 3,40,45796,41, 3,40,46972,41, 3,40,47560,41,
      3,40,48148,41, 3,40,49324,41, 3,40,50500,41, 3,40,51088,41,
      3,40,52264,41, 3,40,52852,41, 3,40,53440,41, 3,40,54028,41,
      3,40,54616,41, 3,40,51452,41, 4,40,50724,51204,41,
      4,40,50724,54980,41, 3,40,19968,41, 3,40,20108,41, 3,40,19977,41,
      3,40,22235,41, 3,40,20116,41, 3,40,20845,41, 3,40,19971,41,
      3,40,20843,41, 3,40,20061,41, 3,40,21313,41, 3,40,26376,41,
      3,40,28779,41, 3,40,27700,41, 3,40,26408,41, 3,40,37329,41,
      3,40,22303,41, 3,40,26085,41, 3,40,26666,41, 3,40,26377,41,
      3,40,31038,41, 3,40,21517,41, 3,40,29305,41, 3,40,36001,41,
      3,40,31069,41, 3,40,21172,41, 3,40,20195,41, 3,40,21628,41,
      3,40,23398,41, 3,40,30435,41, 3,40,20225,41, 3,40,36039,41,
      3,40,21332,41, 3,40,31085,41, 3,40,20241,41, 3,40,33258,41,
      3,40,33267,41, 1,21839, 1,24188, 1,31631, 3,112,116,101, 2,50,49,
      2,50,50, 2,50,51, 2,50,52, 2,50,53, 2,50,54, 2,50,55, 2,50,56,
      2,50,57, 2,51,48, 2,51,49, 2,51,50, 2,51,51, 2,51,52, 2,51,53,
      1,44032, 1,45208, 1,45796, 1,46972, 1,47560, 1,48148, 1,49324,
      1,50500, 1,51088, 1,52264, 1,52852, 1,53440, 1,54028, 1,54616,
      2,52280,44256, 2,51452,51032, 1,50864, 1,20116, 1,20845, 1,19971,
      1,20061, 1,26666, 1,26377, 1,31038, 1,21517, 1,29305, 1,36001,
      1,31069, 1,21172, 1,31192, 1,30007, 1,36969, 1,20778, 1,21360,
      1,27880, 1,38917, 1,20241, 1,20889, 1,27491, 1,24038, 1,21491,
      1,21307, 1,23447, 1,23398, 1,30435, 1,20225, 1,36039, 1,21332,
      1,22812, 2,51,54, 2,51,55, 2,51,56, 2,51,57, 2,52,48, 2,52,49,
      2,52,50, 2,52,51, 2,52,52, 2,52,53, 2,52,54, 2,52,55, 2,52,56,
      2,52,57, 2,53,48, 2,49,26376, 2,50,26376, 2,51,26376, 2,52,26376,
      2,53,26376, 2,54,26376, 2,55,26376, 2,56,26376, 2,57,26376,
      3,49,48,26376, 3,49,49,26376, 3,49,50,26376, 2,104,103, 3,101,114,103,
      2,101,118, 3,108,116,100, 1,12450, 1,12452, 1,12454, 1,12456, 1,12458,
      1,12459, 1,12461, 1,12463, 1,12465, 1,12467, 1,12469, 1,12471,
      1,12473, 1,12475, 1,12477, 1,12479, 1,12481, 1,12484, 1,12486,
      1,12488, 1,12490, 1,12491, 1,12492, 1,12493, 1,12494, 1,12495,
      1,12498, 1,12501, 1,12504, 1,12507, 1,12510, 1,12511, 1,12512,
      1,12513, 1,12514, 1,12516, 1,12518, 1,12520, 1,12521, 1,12522,
      1,12523, 1,12524, 1,12525, 1,12527, 1,12528, 1,12529, 1,12530,
      2,20196,21644, 4,12450,12497,12540,12488, 4,12450,12523,12501,12449,
      4,12450,12531,12506,12450, 3,12450,12540,12523,
      4,12452,12491,12531,12464, 3,12452,12531,12481, 3,12454,12457,12531,
      5,12456,12473,12463,12540,12489, 4,12456,12540,12459,12540,
      3,12458,12531,12473, 3,12458,12540,12512, 3,12459,12452,12522,
      4,12459,12521,12483,12488, 4,12459,12525,12522,12540,
      3,12460,12525,12531, 3,12460,12531,12510, 2,12462,12460,
      3,12462,12491,12540, 4,12461,12517,12522,12540,
      4,12462,12523,12480,12540, 2,12461,12525,
      5,12461,12525,12464,12521,12512,
      6,12461,12525,12513,12540,12488,12523,
      5,12461,12525,12527,12483,12488, 3,12464,12521,12512,
      5,12464,12521,12512,12488,12531, 5,12463,12523,12476,12452,12525,
      4,12463,12525,12540,12493, 3,12465,12540,12473, 3,12467,12523,12490,
      3,12467,12540,12509, 4,12469,12452,12463,12523,
      5,12469,12531,12481,12540,12512, 4,12471,12522,12531,12464,
      3,12475,12531,12481, 3,12475,12531,12488, 3,12480,12540,12473,
      2,12487,12471, 2,12489,12523, 2,12488,12531, 2,12490,12494,
      3,12494,12483,12488, 3,12495,12452,12484,
      5,12497,12540,12475,12531,12488, 3,12497,12540,12484,
      4,12496,12540,12524,12523, 5,12500,12450,12473,12488,12523,
      3,12500,12463,12523, 2,12500,12467, 2,12499,12523,
      5,12501,12449,12521,12483,12489, 4,12501,12451,12540,12488,
      5,12502,12483,12471,12455,12523, 3,12501,12521,12531,
      5,12504,12463,12479,12540,12523, 2,12506,12477, 3,12506,12491,12498,
      3,12504,12523,12484, 3,12506,12531,12473, 3,12506,12540,12472,
      3,12505,12540,12479, 4,12509,12452,12531,12488, 3,12508,12523,12488,
      2,12507,12531, 3,12509,12531,12489, 3,12507,12540,12523,
      3,12507,12540,12531, 4,12510,12452,12463,12525, 3,12510,12452,12523,
      3,12510,12483,12495, 3,12510,12523,12463,
      5,12510,12531,12471,12519,12531, 4,12511,12463,12525,12531,
      2,12511,12522, 5,12511,12522,12496,12540,12523, 2,12513,12460,
      4,12513,12460,12488,12531, 4,12513,12540,12488,12523,
      3,12516,12540,12489, 3,12516,12540,12523, 3,12518,12450,12531,
      4,12522,12483,12488,12523, 2,12522,12521, 3,12523,12500,12540,
      4,12523,12540,12502,12523, 2,12524,12512,
      5,12524,12531,12488,12466,12531, 3,12527,12483,12488, 2,48,28857,
      2,49,28857, 2,50,28857, 2,51,28857, 2,52,28857, 2,53,28857,
      2,54,28857, 2,55,28857, 2,56,28857, 2,57,28857, 3,49,48,28857,
      3,49,49,28857, 3,49,50,28857, 3,49,51,28857, 3,49,52,28857,
      3,49,53,28857, 3,49,54,28857, 3,49,55,28857, 3,49,56,28857,
      3,49,57,28857, 3,50,48,28857, 3,50,49,28857, 3,50,50,28857,
      3,50,51,28857, 3,50,52,28857, 3,104,112,97, 2,100,97, 2,97,117,
      3,98,97,114, 2,111,118, 2,112,99, 2,100,109, 3,100,109,50,
      3,100,109,51, 2,105,117, 2,24179,25104, 2,26157,21644, 2,22823,27491,
      2,26126,27835, 4,26666,24335,20250,31038, 2,112,97, 2,110,97,
      2,956,97, 2,109,97, 2,107,97, 2,107,98, 2,109,98, 2,103,98,
      3,99,97,108, 4,107,99,97,108, 2,112,102, 2,110,102, 2,956,102,
      2,956,103, 2,109,103, 2,107,103, 2,104,122, 3,107,104,122,
      3,109,104,122, 3,103,104,122, 3,116,104,122, 2,956,108, 2,109,108,
      2,100,108, 2,107,108, 2,102,109, 2,110,109, 2,956,109, 2,109,109,
      2,99,109, 2,107,109, 3,109,109,50, 3,99,109,50, 2,109,50,
      3,107,109,50, 3,109,109,51, 3,99,109,51, 2,109,51, 3,107,109,51,
      3,109,8725,115, 4,109,8725,115,50, 3,107,112,97, 3,109,112,97,
      3,103,112,97, 3,114,97,100, 5,114,97,100,8725,115,
      6,114,97,100,8725,115,50, 2,112,115, 2,110,115, 2,956,115, 2,109,115,
      2,112,118, 2,110,118, 2,956,118, 2,109,118, 2,107,118, 2,112,119,
      2,110,119, 2,956,119, 2,109,119, 2,107,119, 2,107,969, 2,109,969,
      2,98,113, 2,99,99, 2,99,100, 4,99,8725,107,103, 2,100,98, 2,103,121,
      2,104,97, 2,104,112, 2,105,110, 2,107,107, 2,107,116, 2,108,109,
      2,108,110, 3,108,111,103, 2,108,120, 3,109,105,108, 3,109,111,108,
      2,112,104, 3,112,112,109, 2,112,114, 2,115,114, 2,115,118, 2,119,98,
      3,118,8725,109, 3,97,8725,109, 2,49,26085, 2,50,26085, 2,51,26085,
      2,52,26085, 2,53,26085, 2,54,26085, 2,55,26085, 2,56,26085,
      2,57,26085, 3,49,48,26085, 3,49,49,26085, 3,49,50,26085,
      3,49,51,26085, 3,49,52,26085, 3,49,53,26085, 3,49,54,26085,
      3,49,55,26085, 3,49,56,26085, 3,49,57,26085, 3,50,48,26085,
      3,50,49,26085, 3,50,50,26085, 3,50,51,26085, 3,50,52,26085,
      3,50,53,26085, 3,50,54,26085, 3,50,55,26085, 3,50,56,26085,
      3,50,57,26085, 3,51,48,26085, 3,51,49,26085, 3,103,97,108, 1,42561,
      1,42563, 1,42565, 1,42567, 1,42569, 1,42573, 1,42575, 1,42577,
      1,42579, 1,42581, 1,42583, 1,42585, 1,42587, 1,42589, 1,42591,
      1,42593, 1,42595, 1,42597, 1,42599, 1,42601, 1,42603, 1,42605,
      1,42625, 1,42627, 1,42629, 1,42631, 1,42633, 1,42635, 1,42637,
      1,42639, 1,42641, 1,42643, 1,42645, 1,42647, 1,42649, 1,42651,
      1,42787, 1,42789, 1,42791, 1,42793, 1,42795, 1,42797, 1,42799,
      1,42803, 1,42805, 1,42807, 1,42809, 1,42811, 1,42813, 1,42815,
      1,42817, 1,42819, 1,42821, 1,42823, 1,42825, 1,42827, 1,42829,
      1,42831, 1,42833, 1,42835, 1,42837, 1,42839, 1,42841, 1,42843,
      1,42845, 1,42847, 1,42849, 1,42851, 1,42853, 1,42855, 1,42857,
      1,42859, 1,42861, 1,42863, 1,42874, 1,42876, 1,7545, 1,42879, 1,42881,
      1,42883, 1,42885, 1,42887, 1,42892, 1,42897, 1,42899, 1,42903,
      1,42905, 1,42907, 1,42909, 1,42911, 1,42913, 1,42915, 1,42917,
      1,42919, 1,42921, 1,620, 1,670, 1,647, 1,43859, 1,42933, 1,42935,
      1,42937, 1,42939, 1,42941, 1,42943, 1,42945, 1,42947, 1,42900, 1,7566,
      1,42952, 1,42954, 1,42961, 1,42967, 1,42969, 1,42998, 1,43831,
      1,43858, 1,653, 1,5024, 1,5025, 1,5026, 1,5027, 1,5028, 1,5029,
      1,5030, 1,5031, 1,5032, 1,5033, 1,5034, 1,5035, 1,5036, 1,5037,
      1,5038, 1,5039, 1,5040, 1,5041, 1,5042, 1,5043, 1,5044, 1,5045,
      1,5046, 1,5047, 1,5048, 1,5049, 1,5050, 1,5051, 1,5052, 1,5053,
      1,5054, 1,5055, 1,5056, 1,5057, 1,5058, 1,5059, 1,5060, 1,5061,
      1,5062, 1,5063, 1,5064, 1,5065, 1,5066, 1,5067, 1,5068, 1,5069,
      1,5070, 1,5071, 1,5072, 1,5073, 1,5074, 1,5075, 1,5076, 1,5077,
      1,5078, 1,5079, 1,5080, 1,5081, 1,5082, 1,5083, 1,5084, 1,5085,
      1,5086, 1,5087, 1,5088, 1,5089, 1,5090, 1,5091, 1,5092, 1,5093,
      1,5094, 1,5095, 1,5096, 1,5097, 1,5098, 1,5099, 1,5100, 1,5101,
      1,5102, 1,5103, 1,35912, 1,26356, 1,36040, 1,28369, 1,20018, 1,21477,
      1,22865, 1,21895, 1,22856, 1,25078, 1,30313, 1,32645, 1,34367,
      1,34746, 1,35064, 1,37007, 1,27138, 1,27931, 1,28889, 1,29662,
      1,33853, 1,37226, 1,39409, 1,20098, 1,21365, 1,27396, 1,29211,
      1,34349, 1,40478, 1,23888, 1,28651, 1,34253, 1,35172, 1,25289,
      1,33240, 1,34847, 1,24266, 1,26391, 1,28010, 1,29436, 1,37070,
      1,20358, 1,20919, 1,21214, 1,25796, 1,27347, 1,29200, 1,30439,
      1,34310, 1,34396, 1,36335, 1,38706, 1,39791, 1,40442, 1,30860,
      1,31103, 1,32160, 1,33737, 1,37636, 1,35542, 1,22751, 1,24324,
      1,31840, 1,32894, 1,29282, 1,30922, 1,36034, 1,38647, 1,22744,
      1,23650, 1,27155, 1,28122, 1,28431, 1,32047, 1,32311, 1,38475,
      1,21202, 1,32907, 1,20956, 1,20940, 1,31260, 1,32190, 1,33777,
      1,38517, 1,35712, 1,25295, 1,35582, 1,20025, 1,23527, 1,24594,
      1,29575, 1,30064, 1,21271, 1,30971, 1,20415, 1,24489, 1,19981,
      1,27852, 1,25976, 1,32034, 1,21443, 1,22622, 1,30465, 1,33865,
      1,35498, 1,27578, 1,27784, 1,25342, 1,33509, 1,25504, 1,30053,
      1,20142, 1,20841, 1,20937, 1,26753, 1,31975, 1,33391, 1,35538,
      1,37327, 1,21237, 1,21570, 1,24300, 1,26053, 1,28670, 1,31018,
      1,38317, 1,39530, 1,40599, 1,40654, 1,26310, 1,27511, 1,36706,
      1,24180, 1,24976, 1,25088, 1,25754, 1,28451, 1,29001, 1,29833,
      1,31178, 1,32244, 1,32879, 1,36646, 1,34030, 1,36899, 1,37706,
      1,21015, 1,21155, 1,21693, 1,28872, 1,35010, 1,24265, 1,24565,
      1,25467, 1,27566, 1,31806, 1,29557, 1,20196, 1,22265, 1,23994,
      1,24604, 1,29618, 1,29801, 1,32666, 1,32838, 1,37428, 1,38646,
      1,38728, 1,38936, 1,20363, 1,31150, 1,37300, 1,38584, 1,24801,
      1,20102, 1,20698, 1,23534, 1,23615, 1,26009, 1,29134, 1,30274,
      1,34044, 1,36988, 1,26248, 1,38446, 1,21129, 1,26491, 1,26611,
      1,27969, 1,28316, 1,29705, 1,30041, 1,30827, 1,32016, 1,39006,
      1,25134, 1,38520, 1,20523, 1,23833, 1,28138, 1,36650, 1,24459,
      1,24900, 1,26647, 1,38534, 1,21033, 1,21519, 1,23653, 1,26131,
      1,26446, 1,26792, 1,27877, 1,29702, 1,30178, 1,32633, 1,35023,
      1,35041, 1,38626, 1,21311, 1,28346, 1,21533, 1,29136, 1,29848,
      1,34298, 1,38563, 1,40023, 1,40607, 1,26519, 1,28107, 1,33256,
      1,31520, 1,31890, 1,29376, 1,28825, 1,35672, 1,20160, 1,33590,
      1,21050, 1,20999, 1,24230, 1,25299, 1,31958, 1,23429, 1,27934,
      1,26292, 1,36667, 1,38477, 1,24275, 1,20800, 1,21952, 1,22618,
      1,26228, 1,20958, 1,29482, 1,30410, 1,31036, 1,31070, 1,31077,
      1,31119, 1,38742, 1,31934, 1,34322, 1,35576, 1,36920, 1,37117,
      1,39151, 1,39164, 1,39208, 1,40372, 1,37086, 1,38583, 1,20398,
      1,20711, 1,20813, 1,21193, 1,21220, 1,21329, 1,21917, 1,22022,
      1,22120, 1,22592, 1,22696, 1,23652, 1,24724, 1,24936, 1,24974,
      1,25074, 1,25935, 1,26082, 1,26257, 1,26757, 1,28023, 1,28186,
      1,28450, 1,29038, 1,29227, 1,29730, 1,30865, 1,31049, 1,31048,
      1,31056, 1,31062, 1,31117, 1,31118, 1,31296, 1,31361, 1,31680,
      1,32265, 1,32321, 1,32626, 1,32773, 1,33261, 1,33401, 1,33879,
      1,35088, 1,35222, 1,35585, 1,35641, 1,36051, 1,36104, 1,36790,
      1,38627, 1,38911, 1,38971, 1,24693, 1,148206, 1,33304, 1,20006,
      1,20917, 1,20840, 1,20352, 1,20805, 1,20864, 1,21191, 1,21242,
      1,21845, 1,21913, 1,21986, 1,22707, 1,22852, 1,22868, 1,23138,
      1,23336, 1,24274, 1,24281, 1,24425, 1,24493, 1,24792, 1,24910,
      1,24840, 1,24928, 1,25140, 1,25540, 1,25628, 1,25682, 1,25942,
      1,26395, 1,26454, 1,28379, 1,28363, 1,28702, 1,30631, 1,29237,
      1,29359, 1,29809, 1,29958, 1,30011, 1,30237, 1,30239, 1,30427,
      1,30452, 1,30538, 1,30528, 1,30924, 1,31409, 1,31867, 1,32091,
      1,32574, 1,33618, 1,33775, 1,34681, 1,35137, 1,35206, 1,35519,
      1,35531, 1,35565, 1,35722, 1,36664, 1,36978, 1,37273, 1,37494,
      1,38524, 1,38875, 1,38923, 1,39698, 1,141386, 1,141380, 1,144341,
      1,15261, 1,16408, 1,16441, 1,152137, 1,154832, 1,163539, 1,40771,
      1,40846, 2,102,102, 2,102,105, 2,102,108, 3,102,102,105,
      3,102,102,108, 2,115,116, 2,1396,1398, 2,1396,1381, 2,1396,1387,
      2,1406,1398, 2,1396,1389, 2,1497,1460, 2,1522,1463, 1,1506, 1,1492,
      1,1499, 1,1500, 1,1501, 1,1512, 1,1514, 2,1513,1473, 2,1513,1474,
      3,1513,1468,1473, 3,1513,1468,1474, 2,1488,1463, 2,1488,1464,
      2,1488,1468, 2,1489,1468, 2,1490,1468, 2,1491,1468, 2,1492,1468,
      2,1493,1468, 2,1494,1468, 2,1496,1468, 2,1497,1468, 2,1498,1468,
      2,1499,1468, 2,1500,1468, 2,1502,1468, 2,1504,1468, 2,1505,1468,
      2,1507,1468, 2,1508,1468, 2,1510,1468, 2,1511,1468, 2,1512,1468,
      2,1513,1468, 2,1514,1468, 2,1493,1465, 2,1489,1471, 2,1499,1471,
      2,1508,1471, 2,1488,1500, 1,1649, 1,1659, 1,1662, 1,1664, 1,1658,
      1,1663, 1,1657, 1,1700, 1,1702, 1,1668, 1,1667, 1,1670, 1,1671,
      1,1677, 1,1676, 1,1678, 1,1672, 1,1688, 1,1681, 1,1705, 1,1711,
      1,1715, 1,1713, 1,1722, 1,1723, 1,1728, 1,1729, 1,1726, 1,1746,
      1,1747, 1,1709, 1,1735, 1,1734, 1,1736, 1,1739, 1,1733, 1,1737,
      1,1744, 1,1609, 2,1574,1575, 2,1574,1749, 2,1574,1608, 2,1574,1735,
      2,1574,1734, 2,1574,1736, 2,1574,1744, 2,1574,1609, 1,1740,
      2,1574,1580, 2,1574,1581, 2,1574,1605, 2,1574,1610, 2,1576,1580,
      2,1576,1581, 2,1576,1582, 2,1576,1605, 2,1576,1609, 2,1576,1610,
      2,1578,1580, 2,1578,1581, 2,1578,1582, 2,1578,1605, 2,1578,1609,
      2,1578,1610, 2,1579,1580, 2,1579,1605, 2,1579,1609, 2,1579,1610,
      2,1580,1581, 2,1580,1605, 2,1581,1580, 2,1581,1605, 2,1582,1580,
      2,1582,1581, 2,1582,1605, 2,1587,1580, 2,1587,1581, 2,1587,1582,
      2,1587,1605, 2,1589,1581, 2,1589,1605, 2,1590,1580, 2,1590,1581,
      2,1590,1582, 2,1590,1605, 2,1591,1581, 2,1591,1605, 2,1592,1605,
      2,1593,1580, 2,1593,1605, 2,1594,1580, 2,1594,1605, 2,1601,1580,
      2,1601,1581, 2,1601,1582, 2,1601,1605, 2,1601,1609, 2,1601,1610,
      2,1602,1581, 2,1602,1605, 2,1602,1609, 2,1602,1610, 2,1603,1575,
      2,1603,1580, 2,1603,1581, 2,1603,1582, 2,1603,1604, 2,1603,1605,
      2,1603,1609, 2,1603,1610, 2,1604,1580, 2,1604,1581, 2,1604,1582,
      2,1604,1605, 2,1604,1609, 2,1604,1610, 2,1605,1580, 2,1605,1581,
      2,1605,1582, 2,1605,1605, 2,1605,1609, 2,1605,1610, 2,1606,1580,
      2,1606,1581, 2,1606,1582, 2,1606,1605, 2,1606,1609, 2,1606,1610,
      2,1607,1580, 2,1607,1605, 2,1607,1609, 2,1607,1610, 2,1610,1580,
      2,1610,1581, 2,1610,1582, 2,1610,1605, 2,1610,1609, 2,1610,1610,
      2,1584,1648, 2,1585,1648, 2,1609,1648, 3,32,1612,1617, 3,32,1613,1617,
      3,32,1614,1617, 3,32,1615,1617, 3,32,1616,1617, 3,32,1617,1648,
      2,1574,1585, 2,1574,1586, 2,1574,1606, 2,1576,1585, 2,1576,1586,
      2,1576,1606, 2,1578,1585, 2,1578,1586, 2,1578,1606, 2,1579,1585,
      2,1579,1586, 2,1579,1606, 2,1605,1575, 2,1606,1585, 2,1606,1586,
      2,1606,1606, 2,1610,1585, 2,1610,1586, 2,1610,1606, 2,1574,1582,
      2,1574,1607, 2,1576,1607, 2,1578,1607, 2,1589,1582, 2,1604,1607,
      2,1606,1607, 2,1607,1648, 2,1610,1607, 2,1579,1607, 2,1587,1607,
      2,1588,1605, 2,1588,1607, 3,1600,1614,1617, 3,1600,1615,1617,
      3,1600,1616,1617, 2,1591,1609, 2,1591,1610, 2,1593,1609, 2,1593,1610,
      2,1594,1609, 2,1594,1610, 2,1587,1609, 2,1587,1610, 2,1588,1609,
      2,1588,1610, 2,1581,1609, 2,1581,1610, 2,1580,1609, 2,1580,1610,
      2,1582,1609, 2,1582,1610, 2,1589,1609, 2,1589,1610, 2,1590,1609,
      2,1590,1610, 2,1588,1580, 2,1588,1581, 2,1588,1582, 2,1588,1585,
      2,1587,1585, 2,1589,1585, 2,1590,1585, 2,1575,1611, 3,1578,1580,1605,
      3,1578,1581,1580, 3,1578,1581,1605, 3,1578,1582,1605,
      3,1578,1605,1580, 3,1578,1605,1581, 3,1578,1605,1582,
      3,1580,1605,1581, 3,1581,1605,1610, 3,1581,1605,1609,
      3,1587,1581,1580, 3,1587,1580,1581, 3,1587,1580,1609,
      3,1587,1605,1581, 3,1587,1605,1580, 3,1587,1605,1605,
      3,1589,1581,1581, 3,1589,1605,1605, 3,1588,1581,1605,
      3,1588,1580,1610, 3,1588,1605,1582, 3,1588,1605,1605,
      3,1590,1581,1609, 3,1590,1582,1605, 3,1591,1605,1581,
      3,1591,1605,1605, 3,1591,1605,1610, 3,1593,1580,1605,
      3,1593,1605,1605, 3,1593,1605,1609, 3,1594,1605,1605,
      3,1594,1605,1610, 3,1594,1605,1609, 3,1601,1582,1605,
      3,1602,1605,1581, 3,1602,1605,1605, 3,1604,1581,1605,
      3,1604,1581,1610, 3,1604,1581,1609, 3,1604,1580,1580,
      3,1604,1582,1605, 3,1604,1605,1581, 3,1605,1581,1580,
      3,1605,1581,1605, 3,1605,1581,1610, 3,1605,1580,1581,
      3,1605,1580,1605, 3,1605,1582,1580, 3,1605,1582,1605,
      3,1605,1580,1582, 3,1607,1605,1580, 3,1607,1605,1605,
      3,1606,1581,1605, 3,1606,1581,1609, 3,1606,1580,1605,
      3,1606,1580,1609, 3,1606,1605,1610, 3,1606,1605,1609,
      3,1610,1605,1605, 3,1576,1582,1610, 3,1578,1580,1610,
      3,1578,1580,1609, 3,1578,1582,1610, 3,1578,1582,1609,
      3,1578,1605,1610, 3,1578,1605,1609, 3,1580,1605,1610,
      3,1580,1581,1609, 3,1580,1605,1609, 3,1587,1582,1609,
      3,1589,1581,1610, 3,1588,1581,1610, 3,1590,1581,1610,
      3,1604,1580,1610, 3,1604,1605,1610, 3,1610,1581,1610,
      3,1610,1580,1610, 3,1610,1605,1610, 3,1605,1605,1610,
      3,1602,1605,1610, 3,1606,1581,1610, 3,1593,1605,1610,
      3,1603,1605,1610, 3,1606,1580,1581, 3,1605,1582,1610,
      3,1604,1580,1605, 3,1603,1605,1605, 3,1580,1581,1610,
      3,1581,1580,1610, 3,1605,1580,1610, 3,1601,1605,1610,
      3,1576,1581,1610, 3,1587,1582,1610, 3,1606,1580,1610,
      3,1589,1604,1746, 3,1602,1604,1746, 4,1575,1604,1604,1607,
      4,1575,1603,1576,1585, 4,1605,1581,1605,1583, 4,1589,1604,1593,1605,
      4,1585,1587,1608,1604, 4,1593,1604,1610,1607, 4,1608,1587,1604,1605,
      3,1589,1604,1609,
      18,1589,1604,1609,32,1575,1604,1604,1607,32,1593,1604,1610,1607,32,1608,1587,1604,1605,
      8,1580,1604,32,1580,1604,1575,1604,1607, 4,1585,1740,1575,1604, 1,44,
      1,12289, 1,58, 1,33, 1,63, 1,12310, 1,12311, 1,8212, 1,8211, 1,95,
      1,123, 1,125, 1,12308, 1,12309, 1,12304, 1,12305, 1,12298, 1,12299,
      1,12300, 1,12301, 1,12302, 1,12303, 1,91, 1,93, 1,35, 1,38, 1,42,
      1,45, 1,60, 1,62, 1,92, 1,36, 1,37, 1,64, 2,32,1611, 2,1600,1611,
      2,32,1612, 2,32,1613, 2,32,1614, 2,1600,1614, 2,32,1615, 2,1600,1615,
      2,32,1616, 2,1600,1616, 2,32,1617, 2,1600,1617, 2,32,1618,
      2,1600,1618, 1,1569, 1,1570, 1,1571, 1,1572, 1,1573, 1,1574, 1,1575,
      1,1576, 1,1577, 1,1578, 1,1579, 1,1580, 1,1581, 1,1582, 1,1583,
      1,1584, 1,1585, 1,1586, 1,1587, 1,1588, 1,1589, 1,1590, 1,1591,
      1,1592, 1,1593, 1,1594, 1,1601, 1,1602, 1,1603, 1,1604, 1,1605,
      1,1606, 1,1607, 1,1608, 1,1610, 2,1604,1570, 2,1604,1571, 2,1604,1573,
      2,1604,1575, 1,34, 1,39, 1,47, 1,94, 1,124, 1,126, 1,10629, 1,10630,
      1,12539, 1,12449, 1,12451, 1,12453, 1,12455, 1,12457, 1,12515,
      1,12517, 1,12519, 1,12483, 1,12540, 1,12531, 1,12441, 1,12442, 1,162,
      1,163, 1,172, 1,166, 1,165, 1,8361, 1,9474, 1,8592, 1,8593, 1,8594,
      1,8595, 1,9632, 1,9675, 1,66600, 1,66601, 1,66602, 1,66603, 1,66604,
      1,66605, 1,66606, 1,66607, 1,66608, 1,66609, 1,66610, 1,66611,
      1,66612, 1,66613, 1,66614, 1,66615, 1,66616, 1,66617, 1,66618,
      1,66619, 1,66620, 1,66621, 1,66622, 1,66623, 1,66624, 1,66625,
      1,66626, 1,66627, 1,66628, 1,66629, 1,66630, 1,66631, 1,66632,
      1,66633, 1,66634, 1,66635, 1,66636, 1,66637, 1,66638, 1,66639,
      1,66776, 1,66777, 1,66778, 1,66779, 1,66780, 1,66781, 1,66782,
      1,66783, 1,66784, 1,66785, 1,66786, 1,66787, 1,66788, 1,66789,
      1,66790, 1,66791, 1,66792, 1,66793, 1,66794, 1,66795, 1,66796,
      1,66797, 1,66798, 1,66799, 1,66800, 1,66801, 1,66802, 1,66803,
      1,66804, 1,66805, 1,66806, 1,66807, 1,66808, 1,66809, 1,66810,
      1,66811, 1,66967, 1,66968, 1,66969, 1,66970, 1,66971, 1,66972,
      1,66973, 1,66974, 1,66975, 1,66976, 1,66977, 1,66979, 1,66980,
      1,66981, 1,66982, 1,66983, 1,66984, 1,66985, 1,66986, 1,66987,
      1,66988, 1,66989, 1,66990, 1,66991, 1,66992, 1,66993, 1,66995,
      1,66996, 1,66997, 1,66998, 1,66999, 1,67000, 1,67001, 1,67003,
      1,67004, 1,720, 1,721, 1,665, 1,675, 1,43878, 1,677, 1,676, 1,7569,
      1,600, 1,606, 1,681, 1,612, 1,610, 1,667, 1,668, 1,615, 1,644, 1,682,
      1,683, 1,122628, 1,42894, 1,622, 1,122629, 1,654, 1,122630, 1,630,
      1,631, 1,634, 1,122632, 1,638, 1,680, 1,678, 1,43879, 1,679, 1,11377,
      1,655, 1,673, 1,674, 1,664, 1,448, 1,449, 1,450, 1,122634, 1,122654,
      1,68800, 1,68801, 1,68802, 1,68803, 1,68804, 1,68805, 1,68806,
      1,68807, 1,68808, 1,68809, 1,68810, 1,68811, 1,68812, 1,68813,
      1,68814, 1,68815, 1,68816, 1,68817, 1,68818, 1,68819, 1,68820,
      1,68821, 1,68822, 1,68823, 1,68824, 1,68825, 1,68826, 1,68827,
      1,68828, 1,68829, 1,68830, 1,68831, 1,68832, 1,68833, 1,68834,
      1,68835, 1,68836, 1,68837, 1,68838, 1,68839, 1,68840, 1,68841,
      1,68842, 1,68843, 1,68844, 1,68845, 1,68846, 1,68847, 1,68848,
      1,68849, 1,68850, 1,71872, 1,71873, 1,71874, 1,71875, 1,71876,
      1,71877, 1,71878, 1,71879, 1,71880, 1,71881, 1,71882, 1,71883,
      1,71884, 1,71885, 1,71886, 1,71887, 1,71888, 1,71889, 1,71890,
      1,71891, 1,71892, 1,71893, 1,71894, 1,71895, 1,71896, 1,71897,
      1,71898, 1,71899, 1,71900, 1,71901, 1,71902, 1,71903, 1,93792,
      1,93793, 1,93794, 1,93795, 1,93796, 1,93797, 1,93798, 1,93799,
      1,93800, 1,93801, 1,93802, 1,93803, 1,93804, 1,93805, 1,93806,
      1,93807, 1,93808, 1,93809, 1,93810, 1,93811, 1,93812, 1,93813,
      1,93814, 1,93815, 1,93816, 1,93817, 1,93818, 1,93819, 1,93820,
      1,93821, 1,93822, 1,93823, 2,119127,119141, 2,119128,119141,
      3,119128,119141,119150, 3,119128,119141,119151,
      3,119128,119141,119152, 3,119128,119141,119153,
      3,119128,119141,119154, 2,119225,119141, 2,119226,119141,
      3,119225,119141,119150, 3,119226,119141,119150,
      3,119225,119141,119151, 3,119226,119141,119151, 1,305, 1,567, 1,8711,
      1,8706, 1,1231, 1,125218, 1,125219, 1,125220, 1,125221, 1,125222,
      1,125223, 1,125224, 1,125225, 1,125226, 1,125227, 1,125228, 1,125229,
      1,125230, 1,125231, 1,125232, 1,125233, 1,125234, 1,125235, 1,125236,
      1,125237, 1,125238, 1,125239, 1,125240, 1,125241, 1,125242, 1,125243,
      1,125244, 1,125245, 1,125246, 1,125247, 1,125248, 1,125249, 1,125250,
      1,125251, 1,1646, 1,1697, 1,1647, 2,48,44, 2,49,44, 2,50,44, 2,51,44,
      2,52,44, 2,53,44, 2,54,44, 2,55,44, 2,56,44, 2,57,44,
      3,12308,115,12309, 2,119,122, 2,104,118, 2,115,100, 2,115,115,
      3,112,112,118, 2,119,99, 2,109,99, 2,109,100, 2,109,114, 2,100,106,
      2,12411,12363, 2,12467,12467, 1,23383, 1,21452, 1,12487, 1,22810,
      1,35299, 1,20132, 1,26144, 1,28961, 1,21069, 1,24460, 1,20877,
      1,26032, 1,21021, 1,32066, 1,36009, 1,22768, 1,21561, 1,28436,
      1,25237, 1,25429, 1,36938, 1,25351, 1,25171, 1,31105, 1,31354,
      1,21512, 1,28288, 1,30003, 1,21106, 1,21942, 1,37197,
      3,12308,26412,12309, 3,12308,19977,12309, 3,12308,20108,12309,
      3,12308,23433,12309, 3,12308,28857,12309, 3,12308,25171,12309,
      3,12308,30423,12309, 3,12308,21213,12309, 3,12308,25943,12309,
      1,24471, 1,21487, 1,20029, 1,20024, 1,20033, 1,131362, 1,20320,
      1,20411, 1,20482, 1,20602, 1,20633, 1,20687, 1,13470, 1,132666,
      1,20820, 1,20836, 1,20855, 1,132380, 1,13497, 1,20839, 1,132427,
      1,20887, 1,20900, 1,20172, 1,20908, 1,168415, 1,20995, 1,13535,
      1,21051, 1,21062, 1,21111, 1,13589, 1,21253, 1,21254, 1,21321,
      1,21338, 1,21363, 1,21373, 1,21375, 1,133676, 1,28784, 1,21450,
      1,21471, 1,133987, 1,21483, 1,21489, 1,21510, 1,21662, 1,21560,
      1,21576, 1,21608, 1,21666, 1,21750, 1,21776, 1,21843, 1,21859,
      1,21892, 1,21931, 1,21939, 1,21954, 1,22294, 1,22295, 1,22097,
      1,22132, 1,22766, 1,22478, 1,22516, 1,22541, 1,22411, 1,22578,
      1,22577, 1,22700, 1,136420, 1,22770, 1,22775, 1,22790, 1,22818,
      1,22882, 1,136872, 1,136938, 1,23020, 1,23067, 1,23079, 1,23000,
      1,23142, 1,14062, 1,23304, 1,23358, 1,137672, 1,23491, 1,23512,
      1,23539, 1,138008, 1,23551, 1,23558, 1,14209, 1,23648, 1,23744,
      1,23693, 1,138724, 1,23875, 1,138726, 1,23918, 1,23915, 1,23932,
      1,24033, 1,24034, 1,14383, 1,24061, 1,24104, 1,24125, 1,24169,
      1,14434, 1,139651, 1,14460, 1,24240, 1,24243, 1,24246, 1,172946,
      1,140081, 1,33281, 1,24354, 1,14535, 1,144056, 1,156122, 1,24418,
      1,24427, 1,14563, 1,24474, 1,24525, 1,24535, 1,24569, 1,24705,
      1,14650, 1,14620, 1,141012, 1,24775, 1,24904, 1,24908, 1,24954,
      1,25010, 1,24996, 1,25007, 1,25054, 1,25104, 1,25115, 1,25181,
      1,25265, 1,25300, 1,25424, 1,142092, 1,25405, 1,25340, 1,25448,
      1,25475, 1,25572, 1,142321, 1,25634, 1,25541, 1,25513, 1,14894,
      1,25705, 1,25726, 1,25757, 1,25719, 1,14956, 1,25964, 1,143370,
      1,26083, 1,26360, 1,26185, 1,15129, 1,15112, 1,15076, 1,20882,
      1,20885, 1,26368, 1,26268, 1,32941, 1,17369, 1,26401, 1,26462,
      1,26451, 1,144323, 1,15177, 1,26618, 1,26501, 1,26706, 1,144493,
      1,26766, 1,26655, 1,26900, 1,26946, 1,27043, 1,27114, 1,27304,
      1,145059, 1,27355, 1,15384, 1,27425, 1,145575, 1,27476, 1,15438,
      1,27506, 1,27551, 1,27579, 1,146061, 1,138507, 1,146170, 1,27726,
      1,146620, 1,27839, 1,27853, 1,27751, 1,27926, 1,27966, 1,28009,
      1,28024, 1,28037, 1,146718, 1,27956, 1,28207, 1,28270, 1,15667,
      1,28359, 1,147153, 1,28153, 1,28526, 1,147294, 1,147342, 1,28614,
      1,28729, 1,28699, 1,15766, 1,28746, 1,28797, 1,28791, 1,28845,
      1,132389, 1,28997, 1,148067, 1,29084, 1,29224, 1,29264, 1,149000,
      1,29312, 1,29333, 1,149301, 1,149524, 1,29562, 1,29579, 1,16044,
      1,29605, 1,16056, 1,29767, 1,29788, 1,29829, 1,29898, 1,16155,
      1,29988, 1,150582, 1,30014, 1,150674, 1,139679, 1,30224, 1,151457,
      1,151480, 1,151620, 1,16380, 1,16392, 1,151795, 1,151794, 1,151833,
      1,151859, 1,30494, 1,30495, 1,30603, 1,16454, 1,16534, 1,152605,
      1,30798, 1,16611, 1,153126, 1,153242, 1,153285, 1,31211, 1,16687,
      1,31306, 1,31311, 1,153980, 1,154279, 1,16898, 1,154539, 1,31686,
      1,31689, 1,16935, 1,154752, 1,31954, 1,17056, 1,31976, 1,31971,
      1,32000, 1,155526, 1,32099, 1,17153, 1,32199, 1,32258, 1,32325,
      1,17204, 1,156200, 1,156231, 1,17241, 1,156377, 1,32634, 1,156478,
      1,32661, 1,32762, 1,156890, 1,156963, 1,32864, 1,157096, 1,32880,
      1,144223, 1,17365, 1,32946, 1,33027, 1,17419, 1,33086, 1,23221,
      1,157607, 1,157621, 1,144275, 1,144284, 1,33284, 1,36766, 1,17515,
      1,33425, 1,33419, 1,33437, 1,21171, 1,33457, 1,33459, 1,33469,
      1,33510, 1,158524, 1,33565, 1,33635, 1,33709, 1,33571, 1,33725,
      1,33767, 1,33619, 1,33738, 1,33740, 1,33756, 1,158774, 1,159083,
      1,158933, 1,17707, 1,34033, 1,34035, 1,34070, 1,160714, 1,34148,
      1,159532, 1,17757, 1,17761, 1,159665, 1,159954, 1,17771, 1,34384,
      1,34407, 1,34409, 1,34473, 1,34440, 1,34574, 1,34530, 1,34600,
      1,34667, 1,34694, 1,34785, 1,34817, 1,17913, 1,34912, 1,161383,
      1,35031, 1,35038, 1,17973, 1,35066, 1,13499, 1,161966, 1,162150,
      1,18110, 1,18119, 1,35488, 1,162984, 1,36011, 1,36033, 1,36123,
      1,36215, 1,163631, 1,133124, 1,36299, 1,36284, 1,36336, 1,133342,
      1,36564, 1,165330, 1,165357, 1,37012, 1,37105, 1,37137, 1,165678,
      1,37147, 1,37432, 1,37591, 1,37592, 1,37500, 1,37881, 1,37909,
      1,166906, 1,38283, 1,18837, 1,38327, 1,167287, 1,18918, 1,38595,
      1,23986, 1,38691, 1,168261, 1,168474, 1,19054, 1,19062, 1,38880,
      1,168970, 1,19122, 1,169110, 1,38953, 1,169398, 1,39138, 1,19251,
      1,39209, 1,39335, 1,39362, 1,39422, 1,19406, 1,170800, 1,40000,
      1,40189, 1,19662, 1,19693, 1,40295, 1,172238, 1,19704, 1,172293,
      1,172558, 1,172689, 1,19798, 1,40702, 1,40709, 1,40719, 1,40726,
      1,173568>>

\* The full canonical decomposition of the code points that have one,
\* the Hangul syllables left out; rows of five entries: the code point
\* and its decomposition, filled up with 0.
CanonicalDecomposition ==
    <<192,65,768,0,0, 193,65,769,0,0, 194,65,770,0,0, 195,65,771,0,0,
      196,65,776,0,0, 197,65,778,0,0, 199,67,807,0,0, 200,69,768,0,0,
      201,69,769,0,0, 202,69,770,0,0, 203,69,776,0,0, 204,73,768,0,0,
      205,73,769,0,0, 206,73,770,0,0, 207,73,776,0,0, 209,78,771,0,0,
      210,79,768,0,0, 211,79,769,0,0, 212,79,770,0,0, 213,79,771,0,0,
      214,79,776,0,0, 217,85,768,0,0, 218,85,769,0,0, 219,85,770,0,0,
      220,85,776,0,0, 221,89,769,0,0, 224,97,768,0,0, 225,97,769,0,0,
      226,97,770,0,0, 227,97,771,0,0, 228,97,776,0,0, 229,97,778,0,0,
      231,99,807,0,0, 232,101,768,0,0, 233,101,769,0,0, 234,101,770,0,0,
      235,101,776,0,0, 236,105,768,0,0, 237,105,769,0,0, 238,105,770,0,0,
      239,105,776,0,0, 241,110,771,0,0, 242,111,768,0,0, 243,111,769,0,0,
      244,111,770,0,0, 245,111,771,0,0, 246,111,776,0,0, 249,117,768,0,0,
      250,117,769,0,0, 251,117,770,0,0, 252,117,776,0,0, 253,121,769,0,0,
      255,121,776,0,0, 256,65,772,0,0, 257,97,772,0,0, 258,65,774,0,0,
      259,97,774,0,0, 260,65,808,0,0, 261,97,808,0,0, 262,67,769,0,0,
      263,99,769,0,0, 264,67,770,0,0, 265,99,770,0,0, 266,67,775,0,0,
      267,99,775,0,0, 268,67,780,0,0, 269,99,780,0,0, 270,68,780,0,0,
      271,100,780,0,0, 274,69,772,0,0, 275,101,772,0,0, 276,69,774,0,0,
      277,101,774,0,0, 278,69,775,0,0, 279,101,775,0,0, 280,69,808,0,0,
      281,101,808,0,0, 282,69,780,0,0, 283,101,780,0,0, 284,71,770,0,0,
      285,103,770,0,0, 286,71,774,0,0, 287,103,774,0,0, 288,71,775,0,0,
      289,103,775,0,0, 290,71,807,0,0, 291,103,807,0,0, 292,72,770,0,0,
      293,104,770,0,0, 296,73,771,0,0, 297,105,771,0,0, 298,73,772,0,0,
      299,105,772,0,0, 300,73,774,0,0, 301,105,774,0,0, 302,73,808,0,0,
      303,105,808,0,0, 304,73,775,0,0, 308,74,770,0,0, 309,106,770,0,0,
      310,75,807,0,0, 311,107,807,0,0, 313,76,769,0,0, 314,108,769,0,0,
      315,76,807,0,0, 316,108,807,0,0, 317,76,780,0,0, 318,108,780,0,0,
      323,78,769,0,0, 324,110,769,0,0, 325,78,807,0,0, 326,110,807,0,0,
      327,78,780,0,0, 328,110,780,0,0, 332,79,772,0,0, 333,111,772,0,0,
      334,79,774,0,0, 335,111,774,0,0, 336,79,779,0,0, 337,111,779,0,0,
      340,82,769,0,0, 341,114,769,0,0, 342,82,807,0,0, 343,114,807,0,0,
      344,82,780,0,0, 345,114,780,0,0, 346,83,769,0,0, 347,115,769,0,0,
      348,83,770,0,0, 349,115,770,0,0, 350,83,807,0,0, 351,115,807,0,0,
      352,83,780,0,0, 353,115,780,0,0, 354,84,807,0,0, 355,116,807,0,0,
      356,84,780,0,0, 357,116,780,0,0, 360,85,771,0,0, 361,117,771,0,0,
      362,85,772,0,0, 363,117,772,0,0, 364,85,774,0,0, 365,117,774,0,0,
      366,85,778,0,0, 367,117,778,0,0, 368,85,779,0,0, 369,117,779,0,0,
      370,85,808,0,0, 371,117,808,0,0, 372,87,770,0,0, 373,119,770,0,0,
      374,89,770,0,0, 375,121,770,0,0, 376,89,776,0,0, 377,90,769,0,0,
      378,122,769,0,0, 379,90,775,0,0, 380,122,775,0,0, 381,90,780,0,0,
      382,122,780,0,0, 416,79,795,0,0, 417,111,795,0,0, 431,85,795,0,0,
      432,117,795,0,0, 461,65,780,0,0, 462,97,780,0,0, 463,73,780,0,0,
      464,105,780,0,0, 465,79,780,0,0, 466,111,780,0,0, 467,85,780,0,0,
      468,117,780,0,0, 469,85,776,772,0, 470,117,776,772,0,
      471,85,776,769,0, 472,117,776,769,0, 473,85,776,780,0,
      474,117,776,780,0, 475,85,776,768,0, 476,117,776,768,0,
      478,65,776,772,0, 479,97,776,772,0, 480,65,775,772,0,
      481,97,775,772,0, 482,198,772,0,0, 483,230,772,0,0, 486,71,780,0,0,
      487,103,780,0,0, 488,75,780,0,0, 489,107,780,0,0, 490,79,808,0,0,
      491,111,808,0,0, 492,79,808,772,0, 493,111,808,772,0, 494,439,780,0,0,
      495,658,780,0,0, 496,106,780,0,0, 500,71,769,0,0, 501,103,769,0,0,
      504,78,768,0,0, 505,110,768,0,0, 506,65,778,769,0, 507,97,778,769,0,
      508,198,769,0,0, 509,230,769,0,0, 510,216,769,0,0, 511,248,769,0,0,
      512,65,783,0,0, 513,97,783,0,0, 514,65,785,0,0, 515,97,785,0,0,
      516,69,783,0,0, 517,101,783,0,0, 518,69,785,0,0, 519,101,785,0,0,
      520,73,783,0,0, 521,105,783,0,0, 522,73,785,0,0, 523,105,785,0,0,
      524,79,783,0,0, 525,111,783,0,0, 526,79,785,0,0, 527,111,785,0,0,
      528,82,783,0,0, 529,114,783,0,0, 530,82,785,0,0, 531,114,785,0,0,
      532,85,783,0,0, 533,117,783,0,0, 534,85,785,0,0, 535,117,785,0,0,
      536,83,806,0,0, 537,115,806,0,0, 538,84,806,0,0, 539,116,806,0,0,
      542,72,780,0,0, 543,104,780,0,0, 550,65,775,0,0, 551,97,775,0,0,
      552,69,807,0,0, 553,101,807,0,0, 554,79,776,772,0, 555,111,776,772,0,
      556,79,771,772,0, 557,111,771,772,0, 558,79,775,0,0, 559,111,775,0,0,
      560,79,775,772,0, 561,111,775,772,0, 562,89,772,0,0, 563,121,772,0,0,
      832,768,0,0,0, 833,769,0,0,0, 835,787,0,0,0, 836,776,769,0,0,
      884,697,0,0,0, 894,59,0,0,0, 901,168,769,0,0, 902,913,769,0,0,
      903,183,0,0,0, 904,917,769,0,0, 905,919,769,0,0, 906,921,769,0,0,
      908,927,769,0,0, 910,933,769,0,0, 911,937,769,0,0, 912,953,776,769,0,
      938,921,776,0,0, 939,933,776,0,0, 940,945,769,0,0, 941,949,769,0,0,
      942,951,769,0,0, 943,953,769,0,0, 944,965,776,769,0, 970,953,776,0,0,
      971,965,776,0,0, 972,959,769,0,0, 973,965,769,0,0, 974,969,769,0,0,
      979,978,769,0,0, 980,978,776,0,0, 1024,1045,768,0,0,
      1025,1045,776,0,0, 1027,1043,769,0,0, 1031,1030,776,0,0,
      1036,1050,769,0,0, 1037,1048,768,0,0, 1038,1059,774,0,0,
      1049,1048,774,0,0, 1081,1080,774,0,0, 1104,1077,768,0,0,
      1105,1077,776,0,0, 1107,1075,769,0,0, 1111,1110,776,0,0,
      1116,1082,769,0,0, 1117,1080,768,0,0, 1118,1091,774,0,0,
      1142,1140,783,0,0, 1143,1141,783,0,0, 1217,1046,774,0,0,
      1218,1078,774,0,0, 1232,1040,774,0,0, 1233,1072,774,0,0,
      1234,1040,776,0,0, 1235,1072,776,0,0, 1238,1045,774,0,0,
      1239,1077,774,0,0, 1242,1240,776,0,0, 1243,1241,776,0,0,
      1244,1046,776,0,0, 1245,1078,776,0,0, 1246,1047,776,0,0,
      1247,1079,776,0,0, 1250,1048,772,0,0, 1251,1080,772,0,0,
      1252,1048,776,0,0, 1253,1080,776,0,0, 1254,1054,776,0,0,
      1255,1086,776,0,0, 1258,1256,776,0,0, 1259,1257,776,0,0,
      1260,1069,776,0,0, 1261,1101,776,0,0, 1262,1059,772,0,0,
      1263,1091,772,0,0, 1264,1059,776,0,0, 1265,1091,776,0,0,
      1266,1059,779,0,0, 1267,1091,779,0,0, 1268,1063,776,0,0,
      1269,1095,776,0,0, 1272,1067,776,0,0, 1273,1099,776,0,0,
      1570,1575,1619,0,0, 1571,1575,1620,0,0, 1572,1608,1620,0,0,
      1573,1575,1621,0,0, 1574,1610,1620,0,0, 1728,1749,1620,0,0,
      1730,1729,1620,0,0, 1747,1746,1620,0,0, 2345,2344,2364,0,0,
      2353,2352,2364,0,0, 2356,2355,2364,0,0, 2392,2325,2364,0,0,
      2393,2326,2364,0,0, 2394,2327,2364,0,0, 2395,2332,2364,0,0,
      2396,2337,2364,0,0, 2397,2338,2364,0,0, 2398,2347,2364,0,0,
      2399,2351,2364,0,0, 2507,2503,2494,0,0, 2508,2503,2519,0,0,
      2524,2465,2492,0,0, 2525,2466,2492,0,0, 2527,2479,2492,0,0,
      2611,2610,2620,0,0, 2614,2616,2620,0,0, 2649,2582,2620,0,0,
      2650,2583,2620,0,0, 2651,2588,2620,0,0, 2654,2603,2620,0,0,
      2888,2887,2902,0,0, 2891,2887,2878,0,0, 2892,2887,2903,0,0,
      2908,2849,2876,0,0, 2909,2850,2876,0,0, 2964,2962,3031,0,0,
      3018,3014,3006,0,0, 3019,3015,3006,0,0, 3020,3014,3031,0,0,
      3144,3142,3158,0,0, 3264,3263,3285,0,0, 3271,3270,3285,0,0,
      3272,3270,3286,0,0, 3274,3270,3266,0,0, 3275,3270,3266,3285,0,
      3402,3398,3390,0,0, 3403,3399,3390,0,0, 3404,3398,3415,0,0,
      3546,3545,3530,0,0, 3548,3545,3535,0,0, 3549,3545,3535,3530,0,
      3550,3545,3551,0,0, 3907,3906,4023,0,0, 3917,3916,4023,0,0,
      3922,3921,4023,0,0, 3927,3926,4023,0,0, 3932,3931,4023,0,0,
      3945,3904,4021,0,0, 3955,3953,3954,0,0, 3957,3953,3956,0,0,
      3958,4018,3968,0,0, 3960,4019,3968,0,0, 3969,3953,3968,0,0,
      3987,3986,4023,0,0, 3997,3996,4023,0,0, 4002,4001,4023,0,0,
      4007,4006,4023,0,0, 4012,4011,4023,0,0, 4025,3984,4021,0,0,
      4134,4133,4142,0,0, 6918,6917,6965,0,0, 6920,6919,6965,0,0,
      6922,6921,6965,0,0, 6924,6923,6965,0,0, 6926,6925,6965,0,0,
      6930,6929,6965,0,0, 6971,6970,6965,0,0, 6973,6972,6965,0,0,
      6976,6974,6965,0,0, 6977,6975,6965,0,0, 6979,6978,6965,0,0,
      7680,65,805,0,0, 7681,97,805,0,0, 7682,66,775,0,0, 7683,98,775,0,0,
      7684,66,803,0,0, 7685,98,803,0,0, 7686,66,817,0,0, 7687,98,817,0,0,
      7688,67,807,769,0, 7689,99,807,769,0, 7690,68,775,0,0,
      7691,100,775,0,0, 7692,68,803,0,0, 7693,100,803,0,0, 7694,68,817,0,0,
      7695,100,817,0,0, 7696,68,807,0,0, 7697,100,807,0,0, 7698,68,813,0,0,
      7699,100,813,0,0, 7700,69,772,768,0, 7701,101,772,768,0,
      7702,69,772,769,0, 7703,101,772,769,0, 7704,69,813,0,0,
      7705,101,813,0,0, 7706,69,816,0,0, 7707,101,816,0,0,
      7708,69,807,774,0, 7709,101,807,774,0, 7710,70,775,0,0,
      7711,102,775,0,0, 7712,71,772,0,0, 7713,103,772,0,0, 7714,72,775,0,0,
      7715,104,775,0,0, 7716,72,803,0,0, 7717,104,803,0,0, 7718,72,776,0,0,
      7719,104,776,0,0, 7720,72,807,0,0, 7721,104,807,0,0, 7722,72,814,0,0,
      7723,104,814,0,0, 7724,73,816,0,0, 7725,105,816,0,0,
      7726,73,776,769,0, 7727,105,776,769,0, 7728,75,769,0,0,
      7729,107,769,0,0, 7730,75,803,0,0, 7731,107,803,0,0, 7732,75,817,0,0,
      7733,107,817,0,0, 7734,76,803,0,0, 7735,108,803,0,0,
      7736,76,803,772,0, 7737,108,803,772,0, 7738,76,817,0,0,
      7739,108,817,0,0, 7740,76,813,0,0, 7741,108,813,0,0, 7742,77,769,0,0,
      7743,109,769,0,0, 7744,77,775,0,0, 7745,109,775,0,0, 7746,77,803,0,0,
      7747,109,803,0,0, 7748,78,775,0,0, 7749,110,775,0,0, 7750,78,803,0,0,
      7751,110,803,0,0, 7752,78,817,0,0, 7753,110,817,0,0, 7754,78,813,0,0,
      7755,110,813,0,0, 7756,79,771,769,0, 7757,111,771,769,0,
      7758,79,771,776,0, 7759,111,771,776,0, 7760,79,772,768,0,
      7761,111,772,768,0, 7762,79,772,769,0, 7763,111,772,769,0,
      7764,80,769,0,0, 7765,112,769,0,0, 7766,80,775,0,0, 7767,112,775,0,0,
      7768,82,775,0,0, 7769,114,775,0,0, 7770,82,803,0,0, 7771,114,803,0,0,
      7772,82,803,772,0, 7773,114,803,772,0, 7774,82,817,0,0,
      7775,114,817,0,0, 7776,83,775,0,0, 7777,115,775,0,0, 7778,83,803,0,0,
      7779,115,803,0,0, 7780,83,769,775,0, 7781,115,769,775,0,
      7782,83,780,775,0, 7783,115,780,775,0, 7784,83,803,775,0,
      7785,115,803,775,0, 7786,84,775,0,0, 7787,116,775,0,0,
      7788,84,803,0,0, 7789,116,803,0,0, 7790,84,817,0,0, 7791,116,817,0,0,
      7792,84,813,0,0, 7793,116,813,0,0, 7794,85,804,0,0, 7795,117,804,0,0,
      7796,85,816,0,0, 7797,117,816,0,0, 7798,85,813,0,0, 7799,117,813,0,0,
      7800,85,771,769,0, 7801,117,771,769,0, 7802,85,772,776,0,
      7803,117,772,776,0, 7804,86,771,0,0, 7805,118,771,0,0,
      7806,86,803,0,0, 7807,118,803,0,0, 7808,87,768,0,0, 7809,119,768,0,0,
      7810,87,769,0,0, 7811,119,769,0,0, 7812,87,776,0,0, 7813,119,776,0,0,
      7814,87,775,0,0, 7815,119,775,0,0, 7816,87,803,0,0, 7817,119,803,0,0,
      7818,88,775,0,0, 7819,120,775,0,0, 7820,88,776,0,0, 7821,120,776,0,0,
      7822,89,775,0,0, 7823,121,775,0,0, 7824,90,770,0,0, 7825,122,770,0,0,
      7826,90,803,0,0, 7827,122,803,0,0, 7828,90,817,0,0, 7829,122,817,0,0,
      7830,104,817,0,0, 7831,116,776,0,0, 7832,119,778,0,0,
      7833,121,778,0,0, 7835,383,775,0,0, 7840,65,803,0,0, 7841,97,803,0,0,
      7842,65,777,0,0, 7843,97,777,0,0, 7844,65,770,769,0,
      7845,97,770,769,0, 7846,65,770,768,0, 7847,97,770,768,0,
      7848,65,770,777,0, 7849,97,770,777,0, 7850,65,770,771,0,
      7851,97,770,771,0, 7852,65,803,770,0, 7853,97,803,770,0,
      7854,65,774,769,0, 7855,97,774,769,0, 7856,65,774,768,0,
      7857,97,774,768,0, 7858,65,774,777,0, 7859,97,774,777,0,
      7860,65,774,771,0, 7861,97,774,771,0, 7862,65,803,774,0,
      7863,97,803,774,0, 7864,69,803,0,0, 7865,101,803,0,0, 7866,69,777,0,0,
      7867,101,777,0,0, 7868,69,771,0,0, 7869,101,771,0,0,
      7870,69,770,769,0, 7871,101,770,769,0, 7872,69,770,768,0,
      7873,101,770,768,0, 7874,69,770,777,0, 7875,101,770,777,0,
      7876,69,770,771,0, 7877,101,770,771,0, 7878,69,803,770,0,
      7879,101,803,770,0, 7880,73,777,0,0, 7881,105,777,0,0,
      7882,73,803,0,0, 7883,105,803,0,0, 7884,79,803,0,0, 7885,111,803,0,0,
      7886,79,777,0,0, 7887,111,777,0,0, 7888,79,770,769,0,
      7889,111,770,769,0, 7890,79,770,768,0, 7891,111,770,768,0,
      7892,79,770,777,0, 7893,111,770,777,0, 7894,79,770,771,0,
      7895,111,770,771,0, 7896,79,803,770,0, 7897,111,803,770,0,
      7898,79,795,769,0, 7899,111,795,769,0, 7900,79,795,768,0,
      7901,111,795,768,0, 7902,79,795,777,0, 7903,111,795,777,0,
      7904,79,795,771,0, 7905,111,795,771,0, 7906,79,795,803,0,
      7907,111,795,803,0, 7908,85,803,0,0, 7909,117,803,0,0,
      7910,85,777,0,0, 7911,117,777,0,0, 7912,85,795,769,0,
      7913,117,795,769,0, 7914,85,795,768,0, 7915,117,795,768,0,
      7916,85,795,777,0, 7917,117,795,777,0, 7918,85,795,771,0,
      7919,117,795,771,0, 7920,85,795,803,0, 7921,117,795,803,0,
      7922,89,768,0,0, 7923,121,768,0,0, 7924,89,803,0,0, 7925,121,803,0,0,
      7926,89,777,0,0, 7927,121,777,0,0, 7928,89,771,0,0, 7929,121,771,0,0,
      7936,945,787,0,0, 7937,945,788,0,0, 7938,945,787,768,0,
      7939,945,788,768,0, 7940,945,787,769,0, 7941,945,788,769,0,
      7942,945,787,834,0, 7943,945,788,834,0, 7944,913,787,0,0,
      7945,913,788,0,0, 7946,913,787,768,0, 7947,913,788,768,0,
      7948,913,787,769,0, 7949,913,788,769,0, 7950,913,787,834,0,
      7951,913,788,834,0, 7952,949,787,0,0, 7953,949,788,0,0,
      7954,949,787,768,0, 7955,949,788,768,0, 7956,949,787,769,0,
      7957,949,788,769,0, 7960,917,787,0,0, 7961,917,788,0,0,
      7962,917,787,768,0, 7963,917,788,768,0, 7964,917,787,769,0,
      7965,917,788,769,0, 7968,951,787,0,0, 7969,951,788,0,0,
      7970,951,787,768,0, 7971,951,788,768,0, 7972,951,787,769,0,
      7973,951,788,769,0, 7974,951,787,834,0, 7975,951,788,834,0,
      7976,919,787,0,0, 7977,919,788,0,0, 7978,919,787,768,0,
      7979,919,788,768,0, 7980,919,787,769,0, 7981,919,788,769,0,
      7982,919,787,834,0, 7983,919,788,834,0, 7984,953,787,0,0,
      7985,953,788,0,0, 7986,953,787,768,0, 7987,953,788,768,0,
      7988,953,787,769,0, 7989,953,788,769,0, 7990,953,787,834,0,
      7991,953,788,834,0, 7992,921,787,0,0, 7993,921,788,0,0,
      7994,921,787,768,0, 7995,921,788,768,0, 7996,921,787,769,0,
      7997,921,788,769,0, 7998,921,787,834,0, 7999,921,788,834,0,
      8000,959,787,0,0, 8001,959,788,0,0, 8002,959,787,768,0,
      8003,959,788,768,0, 8004,959,787,769,0, 8005,959,788,769,0,
      8008,927,787,0,0, 8009,927,788,0,0, 8010,927,787,768,0,
      8011,927,788,768,0, 8012,927,787,769,0, 8013,927,788,769,0,
      8016,965,787,0,0, 8017,965,788,0,0, 8018,965,787,768,0,
      8019,965,788,768,0, 8020,965,787,769,0, 8021,965,788,769,0,
      8022,965,787,834,0, 8023,965,788,834,0, 8025,933,788,0,0,
      8027,933,788,768,0, 8029,933,788,769,0, 8031,933,788,834,0,
      8032,969,787,0,0, 8033,969,788,0,0, 8034,969,787,768,0,
      8035,969,788,768,0, 8036,969,787,769,0, 8037,969,788,769,0,
      8038,969,787,834,0, 8039,969,788,834,0, 8040,937,787,0,0,
      8041,937,788,0,0, 8042,937,787,768,0, 8043,937,788,768,0,
      8044,937,787,769,0, 8045,937,788,769,0, 8046,937,787,834,0,
      8047,937,788,834,0, 8048,945,768,0,0, 8049,945,769,0,0,
      8050,949,768,0,0, 8051,949,769,0,0, 8052,951,768,0,0,
      8053,951,769,0,0, 8054,953,768,0,0, 8055,953,769,0,0,
      8056,959,768,0,0, 8057,959,769,0,0, 8058,965,768,0,0,
      8059,965,769,0,0, 8060,969,768,0,0, 8061,969,769,0,0,
      8064,945,787,837,0, 8065,945,788,837,0, 8066,945,787,768,837,
      8067,945,788,768,837, 8068,945,787,769,837, 8069,945,788,769,837,
      8070,945,787,834,837, 8071,945,788,834,837, 8072,913,787,837,0,
      8073,913,788,837,0, 8074,913,787,768,837, 8075,913,788,768,837,
      8076,913,787,769,837, 8077,913,788,769,837, 8078,913,787,834,837,
      8079,913,788,834,837, 8080,951,787,837,0, 8081,951,788,837,0,
      8082,951,787,768,837, 8083,951,788,768,837, 8084,951,787,769,837,
      8085,951,788,769,837, 8086,951,787,834,837, 8087,951,788,834,837,
      8088,919,787,837,0, 8089,919,788,837,0, 8090,919,787,768,837,
      8091,919,788,768,837, 8092,919,787,769,837, 8093,919,788,769,837,
      8094,919,787,834,837, 8095,919,788,834,837, 8096,969,787,837,0,
      8097,969,788,837,0, 8098,969,787,768,837, 8099,969,788,768,837,
      8100,969,787,769,837, 8101,969,788,769,837, 8102,969,787,834,837,
      8103,969,788,834,837, 8104,937,787,837,0, 8105,937,788,837,0,
      8106,937,787,768,837, 8107,937,788,768,837, 8108,937,787,769,837,
      8109,937,788,769,837, 8110,937,787,834,837, 8111,937,788,834,837,
      8112,945,774,0,0, 8113,945,772,0,0, 8114,945,768,837,0,
      8115,945,837,0,0, 8116,945,769,837,0, 8118,945,834,0,0,
      8119,945,834,837,0, 8120,913,774,0,0, 8121,913,772,0,0,
      8122,913,768,0,0, 8123,913,769,0,0, 8124,913,837,0,0, 8126,953,0,0,0,
      8129,168,834,0,0, 8130,951,768,837,0, 8131,951,837,0,0,
      8132,951,769,837,0, 8134,951,834,0,0, 8135,951,834,837,0,
      8136,917,768,0,0, 8137,917,769,0,0, 8138,919,768,0,0,
      8139,919,769,0,0, 8140,919,837,0,0, 8141,8127,768,0,0,
      8142,8127,769,0,0, 8143,8127,834,0,0, 8144,953,774,0,0,
      8145,953,772,0,0, 8146,953,776,768,0, 8147,953,776,769,0,
      8150,953,834,0,0, 8151,953,776,834,0, 8152,921,774,0,0,
      8153,921,772,0,0, 8154,921,768,0,0, 8155,921,769,0,0,
      8157,8190,768,0,0, 8158,8190,769,0,0, 8159,8190,834,0,0,
      8160,965,774,0,0, 8161,965,772,0,0, 8162,965,776,768,0,
      8163,965,776,769,0, 8164,961,787,0,0, 8165,961,788,0,0,
      8166,965,834,0,0, 8167,965,776,834,0, 8168,933,774,0,0,
      8169,933,772,0,0, 8170,933,768,0,0, 8171,933,769,0,0,
      8172,929,788,0,0, 8173,168,768,0,0, 8174,168,769,0,0, 8175,96,0,0,0,
      8178,969,768,837,0, 8179,969,837,0,0, 8180,969,769,837,0,
      8182,969,834,0,0, 8183,969,834,837,0, 8184,927,768,0,0,
      8185,927,769,0,0, 8186,937,768,0,0, 8187,937,769,0,0,
      8188,937,837,0,0, 8189,180,0,0,0, 8192,8194,0,0,0, 8193,8195,0,0,0,
      8486,937,0,0,0, 8490,75,0,0,0, 8491,65,778,0,0, 8602,8592,824,0,0,
      8603,8594,824,0,0, 8622,8596,824,0,0, 8653,8656,824,0,0,
      8654,8660,824,0,0, 8655,8658,824,0,0, 8708,8707,824,0,0,
      8713,8712,824,0,0, 8716,8715,824,0,0, 8740,8739,824,0,0,
      8742,8741,824,0,0, 8769,8764,824,0,0, 8772,8771,824,0,0,
      8775,8773,824,0,0, 8777,8776,824,0,0, 8800,61,824,0,0,
      8802,8801,824,0,0, 8813,8781,824,0,0, 8814,60,824,0,0,
      8815,62,824,0,0, 8816,8804,824,0,0, 8817,8805,824,0,0,
      8820,8818,824,0,0, 8821,8819,824,0,0, 8824,8822,824,0,0,
      8825,8823,824,0,0, 8832,8826,824,0,0, 8833,8827,824,0,0,
      8836,8834,824,0,0, 8837,8835,824,0,0, 8840,8838,824,0,0,
      8841,8839,824,0,0, 8876,8866,824,0,0, 8877,8872,824,0,0,
      8878,8873,824,0,0, 8879,8875,824,0,0, 8928,8828,824,0,0,
      8929,8829,824,0,0, 8930,8849,824,0,0, 8931,8850,824,0,0,
      8938,8882,824,0,0, 8939,8883,824,0,0, 8940,8884,824,0,0,
      8941,8885,824,0,0, 9001,12296,0,0,0, 9002,12297,0,0,0,
      10972,10973,824,0,0, 12364,12363,12441,0,0, 12366,12365,12441,0,0,
      12368,12367,12441,0,0, 12370,12369,12441,0,0, 12372,12371,12441,0,0,
      12374,12373,12441,0,0, 12376,12375,12441,0,0, 12378,12377,12441,0,0,
      12380,12379,12441,0,0, 12382,12381,12441,0,0, 12384,12383,12441,0,0,
      12386,12385,12441,0,0, 12389,12388,12441,0,0, 12391,12390,12441,0,0,
      12393,12392,12441,0,0, 12400,12399,12441,0,0, 12401,12399,12442,0,0,
      12403,12402,12441,0,0, 12404,12402,12442,0,0, 12406,12405,12441,0,0,
      12407,12405,12442,0,0, 12409,12408,12441,0,0, 12410,12408,12442,0,0,
      12412,12411,12441,0,0, 12413,12411,12442,0,0, 12436,12358,12441,0,0,
      12446,12445,12441,0,0, 12460,12459,12441,0,0, 12462,12461,12441,0,0,
      12464,12463,12441,0,0, 12466,12465,12441,0,0, 12468,12467,12441,0,0,
      12470,12469,12441,0,0, 12472,12471,12441,0,0, 12474,12473,12441,0,0,
      12476,12475,12441,0,0, 12478,12477,12441,0,0, 12480,12479,12441,0,0,
      12482,12481,12441,0,0, 12485,12484,12441,0,0, 12487,12486,12441,0,0,
      12489,12488,12441,0,0, 12496,12495,12441,0,0, 12497,12495,12442,0,0,
      12499,12498,12441,0,0, 12500,12498,12442,0,0, 12502,12501,12441,0,0,
      12503,12501,12442,0,0, 12505,12504,12441,0,0, 12506,12504,12442,0,0,
      12508,12507,12441,0,0, 12509,12507,12442,0,0, 12532,12454,12441,0,0,
      12535,12527,12441,0,0, 12536,12528,12441,0,0, 12537,12529,12441,0,0,
      12538,12530,12441,0,0, 12542,12541,12441,0,0, 63744,35912,0,0,0,
      63745,26356,0,0,0, 63746,36554,0,0,0, 63747,36040,0,0,0,
      63748,28369,0,0,0, 63749,20018,0,0,0, 63750,21477,0,0,0,
      63751,40860,0,0,0, 63752,40860,0,0,0, 63753,22865,0,0,0,
      63754,37329,0,0,0, 63755,21895,0,0,0, 63756,22856,0,0,0,
      63757,25078,0,0,0, 63758,30313,0,0,0, 63759,32645,0,0,0,
      63760,34367,0,0,0, 63761,34746,0,0,0, 63762,35064,0,0,0,
      63763,37007,0,0,0, 63764,27138,0,0,0, 63765,27931,0,0,0,
      63766,28889,0,0,0, 63767,29662,0,0,0, 63768,33853,0,0,0,
      63769,37226,0,0,0, 63770,39409,0,0,0, 63771,20098,0,0,0,
      63772,21365,0,0,0, 63773,27396,0,0,0, 63774,29211,0,0,0,
      63775,34349,0,0,0, 63776,40478,0,0,0, 63777,23888,0,0,0,
      63778,28651,0,0,0, 63779,34253,0,0,0, 63780,35172,0,0,0,
      63781,25289,0,0,0, 63782,33240,0,0,0, 63783,34847,0,0,0,
      63784,24266,0,0,0, 63785,26391,0,0,0, 63786,28010,0,0,0,
      63787,29436,0,0,0, 63788,37070,0,0,0, 63789,20358,0,0,0,
      63790,20919,0,0,0, 63791,21214,0,0,0, 63792,25796,0,0,0,
      63793,27347,0,0,0, 63794,29200,0,0,0, 63795,30439,0,0,0,
      63796,32769,0,0,0, 63797,34310,0,0,0, 63798,34396,0,0,0,
      63799,36335,0,0,0, 63800,38706,0,0,0, 63801,39791,0,0,0,
      63802,40442,0,0,0, 63803,30860,0,0,0, 63804,31103,0,0,0,
      63805,32160,0,0,0, 63806,33737,0,0,0, 63807,37636,0,0,0,
      63808,40575,0,0,0, 63809,35542,0,0,0, 63810,22751,0,0,0,
      63811,24324,0,0,0, 63812,31840,0,0,0, 63813,32894,0,0,0,
      63814,29282,0,0,0, 63815,30922,0,0,0, 63816,36034,0,0,0,
      63817,38647,0,0,0, 63818,22744,0,0,0, 63819,23650,0,0,0,
      63820,27155,0,0,0, 63821,28122,0,0,0, 63822,28431,0,0,0,
      63823,32047,0,0,0, 63824,32311,0,0,0, 63825,38475,0,0,0,
      63826,21202,0,0,0, 63827,32907,0,0,0, 63828,20956,0,0,0,
      63829,20940,0,0,0, 63830,31260,0,0,0, 63831,32190,0,0,0,
      63832,33777,0,0,0, 63833,38517,0,0,0, 63834,35712,0,0,0,
      63835,25295,0,0,0, 63836,27138,0,0,0, 63837,35582,0,0,0,
      63838,20025,0,0,0, 63839,23527,0,0,0, 63840,24594,0,0,0,
      63841,29575,0,0,0, 63842,30064,0,0,0, 63843,21271,0,0,0,
      63844,30971,0,0,0, 63845,20415,0,0,0, 63846,24489,0,0,0,
      63847,19981,0,0,0, 63848,27852,0,0,0, 63849,25976,0,0,0,
      63850,32034,0,0,0, 63851,21443,0,0,0, 63852,22622,0,0,0,
      63853,30465,0,0,0, 63854,33865,0,0,0, 63855,35498,0,0,0,
      63856,27578,0,0,0, 63857,36784,0,0,0, 63858,27784,0,0,0,
      63859,25342,0,0,0, 63860,33509,0,0,0, 63861,25504,0,0,0,
      63862,30053,0,0,0, 63863,20142,0,0,0, 63864,20841,0,0,0,
      63865,20937,0,0,0, 63866,26753,0,0,0, 63867,31975,0,0,0,
      63868,33391,0,0,0, 63869,35538,0,0,0, 63870,37327,0,0,0,
      63871,21237,0,0,0, 63872,21570,0,0,0, 63873,22899,0,0,0,
      63874,24300,0,0,0, 63875,26053,0,0,0, 63876,28670,0,0,0,
      63877,31018,0,0,0, 63878,38317,0,0,0, 63879,39530,0,0,0,
      63880,40599,0,0,0, 63881,40654,0,0,0, 63882,21147,0,0,0,
      63883,26310,0,0,0, 63884,27511,0,0,0, 63885,36706,0,0,0,
      63886,24180,0,0,0, 63887,24976,0,0,0, 63888,25088,0,0,0,
      63889,25754,0,0,0, 63890,28451,0,0,0, 63891,29001,0,0,0,
      63892,29833,0,0,0, 63893,31178,0,0,0, 63894,32244,0,0,0,
      63895,32879,0,0,0, 63896,36646,0,0,0, 63897,34030,0,0,0,
      63898,36899,0,0,0, 63899,37706,0,0,0, 63900,21015,0,0,0,
      63901,21155,0,0,0, 63902,21693,0,0,0, 63903,28872,0,0,0,
      63904,35010,0,0,0, 63905,35498,0,0,0, 63906,24265,0,0,0,
      63907,24565,0,0,0, 63908,25467,0,0,0, 63909,27566,0,0,0,
      63910,31806,0,0,0, 63911,29557,0,0,0, 63912,20196,0,0,0,
      63913,22265,0,0,0, 63914,23527,0,0,0, 63915,23994,0,0,0,
      63916,24604,0,0,0, 63917,29618,0,0,0, 63918,29801,0,0,0,
      63919,32666,0,0,0, 63920,32838,0,0,0, 63921,37428,0,0,0,
      63922,38646,0,0,0, 63923,38728,0,0,0, 63924,38936,0,0,0,
      63925,20363,0,0,0, 63926,31150,0,0,0, 63927,37300,0,0,0,
      63928,38584,0,0,0, 63929,24801,0,0,0, 63930,20102,0,0,0,
      63931,20698,0,0,0, 63932,23534,0,0,0, 63933,23615,0,0,0,
      63934,26009,0,0,0, 63935,27138,0,0,0, 63936,29134,0,0,0,
      63937,30274,0,0,0, 63938,34044,0,0,0, 63939,36988,0,0,0,
      63940,40845,0,0,0, 63941,26248,0,0,0, 63942,38446,0,0,0,
      63943,21129,0,0,0, 63944,26491,0,0,0, 63945,26611,0,0,0,
      63946,27969,0,0,0, 63947,28316,0,0,0, 63948,29705,0,0,0,
      63949,30041,0,0,0, 63950,30827,0,0,0, 63951,32016,0,0,0,
      63952,39006,0,0,0, 63953,20845,0,0,0, 63954,25134,0,0,0,
      63955,38520,0,0,0, 63956,20523,0,0,0, 63957,23833,0,0,0,
      63958,28138,0,0,0, 63959,36650,0,0,0, 63960,24459,0,0,0,
      63961,24900,0,0,0, 63962,26647,0,0,0, 63963,29575,0,0,0,
      63964,38534,0,0,0, 63965,21033,0,0,0, 63966,21519,0,0,0,
      63967,23653,0,0,0, 63968,26131,0,0,0, 63969,26446,0,0,0,
      63970,26792,0,0,0, 63971,27877,0,0,0, 63972,29702,0,0,0,
      63973,30178,0,0,0, 63974,32633,0,0,0, 63975,35023,0,0,0,
      63976,35041,0,0,0, 63977,37324,0,0,0, 63978,38626,0,0,0,
      63979,21311,0,0,0, 63980,28346,0,0,0, 63981,21533,0,0,0,
      63982,29136,0,0,0, 63983,29848,0,0,0, 63984,34298,0,0,0,
      63985,38563,0,0,0, 63986,40023,0,0,0, 63987,40607,0,0,0,
      63988,26519,0,0,0, 63989,28107,0,0,0, 63990,33256,0,0,0,
      63991,31435,0,0,0, 63992,31520,0,0,0, 63993,31890,0,0,0,
      63994,29376,0,0,0, 63995,28825,0,0,0, 63996,35672,0,0,0,
      63997,20160,0,0,0, 63998,33590,0,0,0, 63999,21050,0,0,0,
      64000,20999,0,0,0, 64001,24230,0,0,0, 64002,25299,0,0,0,
      64003,31958,0,0,0, 64004,23429,0,0,0, 64005,27934,0,0,0,
      64006,26292,0,0,0, 64007,36667,0,0,0, 64008,34892,0,0,0,
      64009,38477,0,0,0, 64010,35211,0,0,0, 64011,24275,0,0,0,
      64012,20800,0,0,0, 64013,21952,0,0,0, 64016,22618,0,0,0,
      64018,26228,0,0,0, 64021,20958,0,0,0, 64022,29482,0,0,0,
      64023,30410,0,0,0, 64024,31036,0,0,0, 64025,31070,0,0,0,
      64026,31077,0,0,0, 64027,31119,0,0,0, 64028,38742,0,0,0,
      64029,31934,0,0,0, 64030,32701,0,0,0, 64032,34322,0,0,0,
      64034,35576,0,0,0, 64037,36920,0,0,0, 64038,37117,0,0,0,
      64042,39151,0,0,0, 64043,39164,0,0,0, 64044,39208,0,0,0,
      64045,40372,0,0,0, 64046,37086,0,0,0, 64047,38583,0,0,0,
      64048,20398,0,0,0, 64049,20711,0,0,0, 64050,20813,0,0,0,
      64051,21193,0,0,0, 64052,21220,0,0,0, 64053,21329,0,0,0,
      64054,21917,0,0,0, 64055,22022,0,0,0, 64056,22120,0,0,0,
      64057,22592,0,0,0, 64058,22696,0,0,0, 64059,23652,0,0,0,
      64060,23662,0,0,0, 64061,24724,0,0,0, 64062,24936,0,0,0,
      64063,24974,0,0,0, 64064,25074,0,0,0, 64065,25935,0,0,0,
      64066,26082,0,0,0, 64067,26257,0,0,0, 64068,26757,0,0,0,
      64069,28023,0,0,0, 64070,28186,0,0,0, 64071,28450,0,0,0,
      64072,29038,0,0,0, 64073,29227,0,0,0, 64074,29730,0,0,0,
      64075,30865,0,0,0, 64076,31038,0,0,0, 64077,31049,0,0,0,
      64078,31048,0,0,0, 64079,31056,0,0,0, 64080,31062,0,0,0,
      64081,31069,0,0,0, 64082,31117,0,0,0, 64083,31118,0,0,0,
      64084,31296,0,0,0, 64085,31361,0,0,0, 64086,31680,0,0,0,
      64087,32244,0,0,0, 64088,32265,0,0,0, 64089,32321,0,0,0,
      64090,32626,0,0,0, 64091,32773,0,0,0, 64092,33261,0,0,0,
      64093,33401,0,0,0, 64094,33401,0,0,0, 64095,33879,0,0,0,
      64096,35088,0,0,0, 64097,35222,0,0,0, 64098,35585,0,0,0,
      64099,35641,0,0,0, 64100,36051,0,0,0, 64101,36104,0,0,0,
      64102,36790,0,0,0, 64103,36920,0,0,0, 64104,38627,0,0,0,
      64105,38911,0,0,0, 64106,38971,0,0,0, 64107,24693,0,0,0,
      64108,148206,0,0,0, 64109,33304,0,0,0, 64112,20006,0,0,0,
      64113,20917,0,0,0, 64114,20840,0,0,0, 64115,20352,0,0,0,
      64116,20805,0,0,0, 64117,20864,0,0,0, 64118,21191,0,0,0,
      64119,21242,0,0,0, 64120,21917,0,0,0, 64121,21845,0,0,0,
      64122,21913,0,0,0, 64123,21986,0,0,0, 64124,22618,0,0,0,
      64125,22707,0,0,0, 64126,22852,0,0,0, 64127,22868,0,0,0,
      64128,23138,0,0,0, 64129,23336,0,0,0, 64130,24274,0,0,0,
      64131,24281,0,0,0, 64132,24425,0,0,0, 64133,24493,0,0,0,
      64134,24792,0,0,0, 64135,24910,0,0,0, 64136,24840,0,0,0,
      64137,24974,0,0,0, 64138,24928,0,0,0, 64139,25074,0,0,0,
      64140,25140,0,0,0, 64141,25540,0,0,0, 64142,25628,0,0,0,
      64143,25682,0,0,0, 64144,25942,0,0,0, 64145,26228,0,0,0,
      64146,26391,0,0,0, 64147,26395,0,0,0, 64148,26454,0,0,0,
      64149,27513,0,0,0, 64150,27578,0,0,0, 64151,27969,0,0,0,
      64152,28379,0,0,0, 64153,28363,0,0,0, 64154,28450,0,0,0,
      64155,28702,0,0,0, 64156,29038,0,0,0, 64157,30631,0,0,0,
      64158,29237,0,0,0, 64159,29359,0,0,0, 64160,29482,0,0,0,
      64161,29809,0,0,0, 64162,29958,0,0,0, 64163,30011,0,0,0,
      64164,30237,0,0,0, 64165,30239,0,0,0, 64166,30410,0,0,0,
      64167,30427,0,0,0, 64168,30452,0,0,0, 64169,30538,0,0,0,
      64170,30528,0,0,0, 64171,30924,0,0,0, 64172,31409,0,0,0,
      64173,31680,0,0,0, 64174,31867,0,0,0, 64175,32091,0,0,0,
      64176,32244,0,0,0, 64177,32574,0,0,0, 64178,32773,0,0,0,
      64179,33618,0,0,0, 64180,33775,0,0,0, 64181,34681,0,0,0,
      64182,35137,0,0,0, 64183,35206,0,0,0, 64184,35222,0,0,0,
      64185,35519,0,0,0, 64186,35576,0,0,0, 64187,35531,0,0,0,
      64188,35585,0,0,0, 64189,35582,0,0,0, 64190,35565,0,0,0,
      64191,35641,0,0,0, 64192,35722,0,0,0, 64193,36104,0,0,0,
      64194,36664,0,0,0, 64195,36978,0,0,0, 64196,37273,0,0,0,
      64197,37494,0,0,0, 64198,38524,0,0,0, 64199,38627,0,0,0,
      64200,38742,0,0,0, 64201,38875,0,0,0, 64202,38911,0,0,0,
      64203,38923,0,0,0, 64204,38971,0,0,0, 64205,39698,0,0,0,
      64206,40860,0,0,0, 64207,141386,0,0,0, 64208,141380,0,0,0,
      64209,144341,0,0,0, 64210,15261,0,0,0, 64211,16408,0,0,0,
      64212,16441,0,0,0, 64213,152137,0,0,0, 64214,154832,0,0,0,
      64215,163539,0,0,0, 64216,40771,0,0,0, 64217,40846,0,0,0,
      64285,1497,1460,0,0, 64287,1522,1463,0,0, 64298,1513,1473,0,0,
      64299,1513,1474,0,0, 64300,1513,1468,1473,0, 64301,1513,1468,1474,0,
      64302,1488,1463,0,0, 64303,1488,1464,0,0, 64304,1488,1468,0,0,
      64305,1489,1468,0,0, 64306,1490,1468,0,0, 64307,1491,1468,0,0,
      64308,1492,1468,0,0, 64309,1493,1468,0,0, 64310,1494,1468,0,0,
      64312,1496,1468,0,0, 64313,1497,1468,0,0, 64314,1498,1468,0,0,
      64315,1499,1468,0,0, 64316,1500,1468,0,0, 64318,1502,1468,0,0,
      64320,1504,1468,0,0, 64321,1505,1468,0,0, 64323,1507,1468,0,0,
      64324,1508,1468,0,0, 64326,1510,1468,0,0, 64327,1511,1468,0,0,
      64328,1512,1468,0,0, 64329,1513,1468,0,0, 64330,1514,1468,0,0,
      64331,1493,1465,0,0, 64332,1489,1471,0,0, 64333,1499,1471,0,0,
      64334,1508,1471,0,0, 69786,69785,69818,0,0, 69788,69787,69818,0,0,
      69803,69797,69818,0,0, 69934,69937,69927,0,0, 69935,69938,69927,0,0,
      70475,70471,70462,0,0, 70476,70471,70487,0,0, 70843,70841,70842,0,0,
      70844,70841,70832,0,0, 70846,70841,70845,0,0, 71098,71096,71087,0,0,
      71099,71097,71087,0,0, 71992,71989,71984,0,0,
      119134,119127,119141,0,0, 119135,119128,119141,0,0,
      119136,119128,119141,119150,0, 119137,119128,119141,119151,0,
      119138,119128,119141,119152,0, 119139,119128,119141,119153,0,
      119140,119128,119141,119154,0, 119227,119225,119141,0,0,
      119228,119226,119141,0,0, 119229,119225,119141,119150,0,
      119230,119226,119141,119150,0, 119231,119225,119141,119151,0,
      119232,119226,119141,119151,0, 194560,20029,0,0,0, 194561,20024,0,0,0,
      194562,20033,0,0,0, 194563,131362,0,0,0, 194564,20320,0,0,0,
      194565,20398,0,0,0, 194566,20411,0,0,0, 194567,20482,0,0,0,
      194568,20602,0,0,0, 194569,20633,0,0,0, 194570,20711,0,0,0,
      194571,20687,0,0,0, 194572,13470,0,0,0, 194573,132666,0,0,0,
      194574,20813,0,0,0, 194575,20820,0,0,0, 194576,20836,0,0,0,
      194577,20855,0,0,0, 194578,132380,0,0,0, 194579,13497,0,0,0,
      194580,20839,0,0,0, 194581,20877,0,0,0, 194582,132427,0,0,0,
      194583,20887,0,0,0, 194584,20900,0,0,0, 194585,20172,0,0,0,
      194586,20908,0,0,0, 194587,20917,0,0,0, 194588,168415,0,0,0,
      194589,20981,0,0,0, 194590,20995,0,0,0, 194591,13535,0,0,0,
      194592,21051,0,0,0, 194593,21062,0,0,0, 194594,21106,0,0,0,
      194595,21111,0,0,0, 194596,13589,0,0,0, 194597,21191,0,0,0,
      194598,21193,0,0,0, 194599,21220,0,0,0, 194600,21242,0,0,0,
      194601,21253,0,0,0, 194602,21254,0,0,0, 194603,21271,0,0,0,
      194604,21321,0,0,0, 194605,21329,0,0,0, 194606,21338,0,0,0,
      194607,21363,0,0,0, 194608,21373,0,0,0, 194609,21375,0,0,0,
      194610,21375,0,0,0, 194611,21375,0,0,0, 194612,133676,0,0,0,
      194613,28784,0,0,0, 194614,21450,0,0,0, 194615,21471,0,0,0,
      194616,133987,0,0,0, 194617,21483,0,0,0, 194618,21489,0,0,0,
      194619,21510,0,0,0, 194620,21662,0,0,0, 194621,21560,0,0,0,
      194622,21576,0,0,0, 194623,21608,0,0,0, 194624,21666,0,0,0,
      194625,21750,0,0,0, 194626,21776,0,0,0, 194627,21843,0,0,0,
      194628,21859,0,0,0, 194629,21892,0,0,0, 194630,21892,0,0,0,
      194631,21913,0,0,0, 194632,21931,0,0,0, 194633,21939,0,0,0,
      194634,21954,0,0,0, 194635,22294,0,0,0, 194636,22022,0,0,0,
      194637,22295,0,0,0, 194638,22097,0,0,0, 194639,22132,0,0,0,
      194640,20999,0,0,0, 194641,22766,0,0,0, 194642,22478,0,0,0,
      194643,22516,0,0,0, 194644,22541,0,0,0, 194645,22411,0,0,0,
      194646,22578,0,0,0, 194647,22577,0,0,0, 194648,22700,0,0,0,
      194649,136420,0,0,0, 194650,22770,0,0,0, 194651,22775,0,0,0,
      194652,22790,0,0,0, 194653,22810,0,0,0, 194654,22818,0,0,0,
      194655,22882,0,0,0, 194656,136872,0,0,0, 194657,136938,0,0,0,
      194658,23020,0,0,0, 194659,23067,0,0,0, 194660,23079,0,0,0,
      194661,23000,0,0,0, 194662,23142,0,0,0, 194663,14062,0,0,0,
      194664,14076,0,0,0, 194665,23304,0,0,0, 194666,23358,0,0,0,
      194667,23358,0,0,0, 194668,137672,0,0,0, 194669,23491,0,0,0,
      194670,23512,0,0,0, 194671,23527,0,0,0, 194672,23539,0,0,0,
      194673,138008,0,0,0, 194674,23551,0,0,0, 194675,23558,0,0,0,
      194676,24403,0,0,0, 194677,23586,0,0,0, 194678,14209,0,0,0,
      194679,23648,0,0,0, 194680,23662,0,0,0, 194681,23744,0,0,0,
      194682,23693,0,0,0, 194683,138724,0,0,0, 194684,23875,0,0,0,
      194685,138726,0,0,0, 194686,23918,0,0,0, 194687,23915,0,0,0,
      194688,23932,0,0,0, 194689,24033,0,0,0, 194690,24034,0,0,0,
      194691,14383,0,0,0, 194692,24061,0,0,0, 194693,24104,0,0,0,
      194694,24125,0,0,0, 194695,24169,0,0,0, 194696,14434,0,0,0,
      194697,139651,0,0,0, 194698,14460,0,0,0, 194699,24240,0,0,0,
      194700,24243,0,0,0, 194701,24246,0,0,0, 194702,24266,0,0,0,
      194703,172946,0,0,0, 194704,24318,0,0,0, 194705,140081,0,0,0,
      194706,140081,0,0,0, 194707,33281,0,0,0, 194708,24354,0,0,0,
      194709,24354,0,0,0, 194710,14535,0,0,0, 194711,144056,0,0,0,
      194712,156122,0,0,0, 194713,24418,0,0,0, 194714,24427,0,0,0,
      194715,14563,0,0,0, 194716,24474,0,0,0, 194717,24525,0,0,0,
      194718,24535,0,0,0, 194719,24569,0,0,0, 194720,24705,0,0,0,
      194721,14650,0,0,0, 194722,14620,0,0,0, 194723,24724,0,0,0,
      194724,141012,0,0,0, 194725,24775,0,0,0, 194726,24904,0,0,0,
      194727,24908,0,0,0, 194728,24910,0,0,0, 194729,24908,0,0,0,
      194730,24954,0,0,0, 194731,24974,0,0,0, 194732,25010,0,0,0,
      194733,24996,0,0,0, 194734,25007,0,0,0, 194735,25054,0,0,0,
      194736,25074,0,0,0, 194737,25078,0,0,0, 194738,25104,0,0,0,
      194739,25115,0,0,0, 194740,25181,0,0,0, 194741,25265,0,0,0,
      194742,25300,0,0,0, 194743,25424,0,0,0, 194744,142092,0,0,0,
      194745,25405,0,0,0, 194746,25340,0,0,0, 194747,25448,0,0,0,
      194748,25475,0,0,0, 194749,25572,0,0,0, 194750,142321,0,0,0,
      194751,25634,0,0,0, 194752,25541,0,0,0, 194753,25513,0,0,0,
      194754,14894,0,0,0, 194755,25705,0,0,0, 194756,25726,0,0,0,
      194757,25757,0,0,0, 194758,25719,0,0,0, 194759,14956,0,0,0,
      194760,25935,0,0,0, 194761,25964,0,0,0, 194762,143370,0,0,0,
      194763,26083,0,0,0, 194764,26360,0,0,0, 194765,26185,0,0,0,
      194766,15129,0,0,0, 194767,26257,0,0,0, 194768,15112,0,0,0,
      194769,15076,0,0,0, 194770,20882,0,0,0, 194771,20885,0,0,0,
      194772,26368,0,0,0, 194773,26268,0,0,0, 194774,32941,0,0,0,
      194775,17369,0,0,0, 194776,26391,0,0,0, 194777,26395,0,0,0,
      194778,26401,0,0,0, 194779,26462,0,0,0, 194780,26451,0,0,0,
      194781,144323,0,0,0, 194782,15177,0,0,0, 194783,26618,0,0,0,
      194784,26501,0,0,0, 194785,26706,0,0,0, 194786,26757,0,0,0,
      194787,144493,0,0,0, 194788,26766,0,0,0, 194789,26655,0,0,0,
      194790,26900,0,0,0, 194791,15261,0,0,0, 194792,26946,0,0,0,
      194793,27043,0,0,0, 194794,27114,0,0,0, 194795,27304,0,0,0,
      194796,145059,0,0,0, 194797,27355,0,0,0, 194798,15384,0,0,0,
      194799,27425,0,0,0, 194800,145575,0,0,0, 194801,27476,0,0,0,
      194802,15438,0,0,0, 194803,27506,0,0,0, 194804,27551,0,0,0,
      194805,27578,0,0,0, 194806,27579,0,0,0, 194807,146061,0,0,0,
      194808,138507,0,0,0, 194809,146170,0,0,0, 194810,27726,0,0,0,
      194811,146620,0,0,0, 194812,27839,0,0,0, 194813,27853,0,0,0,
      194814,27751,0,0,0, 194815,27926,0,0,0, 194816,27966,0,0,0,
      194817,28023,0,0,0, 194818,27969,0,0,0, 194819,28009,0,0,0,
      194820,28024,0,0,0, 194821,28037,0,0,0, 194822,146718,0,0,0,
      194823,27956,0,0,0, 194824,28207,0,0,0, 194825,28270,0,0,0,
      194826,15667,0,0,0, 194827,28363,0,0,0, 194828,28359,0,0,0,
      194829,147153,0,0,0, 194830,28153,0,0,0, 194831,28526,0,0,0,
      194832,147294,0,0,0, 194833,147342,0,0,0, 194834,28614,0,0,0,
      194835,28729,0,0,0, 194836,28702,0,0,0, 194837,28699,0,0,0,
      194838,15766,0,0,0, 194839,28746,0,0,0, 194840,28797,0,0,0,
      194841,28791,0,0,0, 194842,28845,0,0,0, 194843,132389,0,0,0,
      194844,28997,0,0,0, 194845,148067,0,0,0, 194846,29084,0,0,0,
      194847,148395,0,0,0, 194848,29224,0,0,0, 194849,29237,0,0,0,
      194850,29264,0,0,0, 194851,149000,0,0,0, 194852,29312,0,0,0,
      194853,29333,0,0,0, 194854,149301,0,0,0, 194855,149524,0,0,0,
      194856,29562,0,0,0, 194857,29579,0,0,0, 194858,16044,0,0,0,
      194859,29605,0,0,0, 194860,16056,0,0,0, 194861,16056,0,0,0,
      194862,29767,0,0,0, 194863,29788,0,0,0, 194864,29809,0,0,0,
      194865,29829,0,0,0, 194866,29898,0,0,0, 194867,16155,0,0,0,
      194868,29988,0,0,0, 194869,150582,0,0,0, 194870,30014,0,0,0,
      194871,150674,0,0,0, 194872,30064,0,0,0, 194873,139679,0,0,0,
      194874,30224,0,0,0, 194875,151457,0,0,0, 194876,151480,0,0,0,
      194877,151620,0,0,0, 194878,16380,0,0,0, 194879,16392,0,0,0,
      194880,30452,0,0,0, 194881,151795,0,0,0, 194882,151794,0,0,0,
      194883,151833,0,0,0, 194884,151859,0,0,0, 194885,30494,0,0,0,
      194886,30495,0,0,0, 194887,30495,0,0,0, 194888,30538,0,0,0,
      194889,16441,0,0,0, 194890,30603,0,0,0, 194891,16454,0,0,0,
      194892,16534,0,0,0, 194893,152605,0,0,0, 194894,30798,0,0,0,
      194895,30860,0,0,0, 194896,30924,0,0,0, 194897,16611,0,0,0,
      194898,153126,0,0,0, 194899,31062,0,0,0, 194900,153242,0,0,0,
      194901,153285,0,0,0, 194902,31119,0,0,0, 194903,31211,0,0,0,
      194904,16687,0,0,0, 194905,31296,0,0,0, 194906,31306,0,0,0,
      194907,31311,0,0,0, 194908,153980,0,0,0, 194909,154279,0,0,0,
      194910,154279,0,0,0, 194911,31470,0,0,0, 194912,16898,0,0,0,
      194913,154539,0,0,0, 194914,31686,0,0,0, 194915,31689,0,0,0,
      194916,16935,0,0,0, 194917,154752,0,0,0, 194918,31954,0,0,0,
      194919,17056,0,0,0, 194920,31976,0,0,0, 194921,31971,0,0,0,
      194922,32000,0,0,0, 194923,155526,0,0,0, 194924,32099,0,0,0,
      194925,17153,0,0,0, 194926,32199,0,0,0, 194927,32258,0,0,0,
      194928,32325,0,0,0, 194929,17204,0,0,0, 194930,156200,0,0,0,
      194931,156231,0,0,0, 194932,17241,0,0,0, 194933,156377,0,0,0,
      194934,32634,0,0,0, 194935,156478,0,0,0, 194936,32661,0,0,0,
      194937,32762,0,0,0, 194938,32773,0,0,0, 194939,156890,0,0,0,
      194940,156963,0,0,0, 194941,32864,0,0,0, 194942,157096,0,0,0,
      194943,32880,0,0,0, 194944,144223,0,0,0, 194945,17365,0,0,0,
      194946,32946,0,0,0, 194947,33027,0,0,0, 194948,17419,0,0,0,
      194949,33086,0,0,0, 194950,23221,0,0,0, 194951,157607,0,0,0,
      194952,157621,0,0,0, 194953,144275,0,0,0, 194954,144284,0,0,0,
      194955,33281,0,0,0, 194956,33284,0,0,0, 194957,36766,0,0,0,
      194958,17515,0,0,0, 194959,33425,0,0,0, 194960,33419,0,0,0,
      194961,33437,0,0,0, 194962,21171,0,0,0, 194963,33457,0,0,0,
      194964,33459,0,0,0, 194965,33469,0,0,0, 194966,33510,0,0,0,
      194967,158524,0,0,0, 194968,33509,0,0,0, 194969,33565,0,0,0,
      194970,33635,0,0,0, 194971,33709,0,0,0, 194972,33571,0,0,0,
      194973,33725,0,0,0, 194974,33767,0,0,0, 194975,33879,0,0,0,
      194976,33619,0,0,0, 194977,33738,0,0,0, 194978,33740,0,0,0,
      194979,33756,0,0,0, 194980,158774,0,0,0, 194981,159083,0,0,0,
      194982,158933,0,0,0, 194983,17707,0,0,0, 194984,34033,0,0,0,
      194985,34035,0,0,0, 194986,34070,0,0,0, 194987,160714,0,0,0,
      194988,34148,0,0,0, 194989,159532,0,0,0, 194990,17757,0,0,0,
      194991,17761,0,0,0, 194992,159665,0,0,0, 194993,159954,0,0,0,
      194994,17771,0,0,0, 194995,34384,0,0,0, 194996,34396,0,0,0,
      194997,34407,0,0,0, 194998,34409,0,0,0, 194999,34473,0,0,0,
      195000,34440,0,0,0, 195001,34574,0,0,0, 195002,34530,0,0,0,
      195003,34681,0,0,0, 195004,34600,0,0,0, 195005,34667,0,0,0,
      195006,34694,0,0,0, 195007,17879,0,0,0, 195008,34785,0,0,0,
      195009,34817,0,0,0, 195010,17913,0,0,0, 195011,34912,0,0,0,
      195012,34915,0,0,0, 195013,161383,0,0,0, 195014,35031,0,0,0,
      195015,35038,0,0,0, 195016,17973,0,0,0, 195017,35066,0,0,0,
      195018,13499,0,0,0, 195019,161966,0,0,0, 195020,162150,0,0,0,
      195021,18110,0,0,0, 195022,18119,0,0,0, 195023,35488,0,0,0,
      195024,35565,0,0,0, 195025,35722,0,0,0, 195026,35925,0,0,0,
      195027,162984,0,0,0, 195028,36011,0,0,0, 195029,36033,0,0,0,
      195030,36123,0,0,0, 195031,36215,0,0,0, 195032,163631,0,0,0,
      195033,133124,0,0,0, 195034,36299,0,0,0, 195035,36284,0,0,0,
      195036,36336,0,0,0, 195037,133342,0,0,0, 195038,36564,0,0,0,
      195039,36664,0,0,0, 195040,165330,0,0,0, 195041,165357,0,0,0,
      195042,37012,0,0,0, 195043,37105,0,0,0, 195044,37137,0,0,0,
      195045,165678,0,0,0, 195046,37147,0,0,0, 195047,37432,0,0,0,
      195048,37591,0,0,0, 195049,37592,0,0,0, 195050,37500,0,0,0,
      195051,37881,0,0,0, 195052,37909,0,0,0, 195053,166906,0,0,0,
      195054,38283,0,0,0, 195055,18837,0,0,0, 195056,38327,0,0,0,
      195057,167287,0,0,0, 195058,18918,0,0,0, 195059,38595,0,0,0,
      195060,23986,0,0,0, 195061,38691,0,0,0, 195062,168261,0,0,0,
      195063,168474,0,0,0, 195064,19054,0,0,0, 195065,19062,0,0,0,
      195066,38880,0,0,0, 195067,168970,0,0,0, 195068,19122,0,0,0,
      195069,169110,0,0,0, 195070,38923,0,0,0, 195071,38923,0,0,0,
      195072,38953,0,0,0, 195073,169398,0,0,0, 195074,39138,0,0,0,
      195075,19251,0,0,0, 195076,39209,0,0,0, 195077,39335,0,0,0,
      195078,39362,0,0,0, 195079,39422,0,0,0, 195080,19406,0,0,0,
      195081,170800,0,0,0, 195082,39698,0,0,0, 195083,40000,0,0,0,
      195084,40189,0,0,0, 195085,19662,0,0,0, 195086,19693,0,0,0,
      195087,40295,0,0,0, 195088,172238,0,0,0, 195089,19704,0,0,0,
      195090,172293,0,0,0, 195091,172558,0,0,0, 195092,172689,0,0,0,
      195093,40635,0,0,0, 195094,19798,0,0,0, 195095,40697,0,0,0,
      195096,40702,0,0,0, 195097,40709,0,0,0, 195098,40719,0,0,0,
      195099,40726,0,0,0, 195100,40763,0,0,0, 195101,173568,0,0,0>>

\* The primary composites; rows of three entries: first, second,
\* composite.
CanonicalComposition ==
    <<60,824,8814, 61,824,8800, 62,824,8815, 65,768,192, 65,769,193,
      65,770,194, 65,771,195, 65,772,256, 65,774,258, 65,775,550,
      65,776,196, 65,777,7842, 65,778,197, 65,780,461, 65,783,512,
      65,785,514, 65,803,7840, 65,805,7680, 65,808,260, 66,775,7682,
      66,803,7684, 66,817,7686, 67,769,262, 67,770,264, 67,775,266,
      67,780,268, 67,807,199, 68,775,7690, 68,780,270, 68,803,7692,
      68,807,7696, 68,813,7698, 68,817,7694, 69,768,200, 69,769,201,
      69,770,202, 69,771,7868, 69,772,274, 69,774,276, 69,775,278,
      69,776,203, 69,777,7866, 69,780,282, 69,783,516, 69,785,518,
      69,803,7864, 69,807,552, 69,808,280, 69,813,7704, 69,816,7706,
      70,775,7710, 71,769,500, 71,770,284, 71,772,7712, 71,774,286,
      71,775,288, 71,780,486, 71,807,290, 72,770,292, 72,775,7714,
      72,776,7718, 72,780,542, 72,803,7716, 72,807,7720, 72,814,7722,
      73,768,204, 73,769,205, 73,770,206, 73,771,296, 73,772,298,
      73,774,300, 73,775,304, 73,776,207, 73,777,7880, 73,780,463,
      73,783,520, 73,785,522, 73,803,7882, 73,808,302, 73,816,7724,
      74,770,308, 75,769,7728, 75,780,488, 75,803,7730, 75,807,310,
      75,817,7732, 76,769,313, 76,780,317, 76,803,7734, 76,807,315,
      76,813,7740, 76,817,7738, 77,769,7742, 77,775,7744, 77,803,7746,
      78,768,504, 78,769,323, 78,771,209, 78,775,7748, 78,780,327,
      78,803,7750, 78,807,325, 78,813,7754, 78,817,7752, 79,768,210,
      79,769,211, 79,770,212, 79,771,213, 79,772,332, 79,774,334,
      79,775,558, 79,776,214, 79,777,7886, 79,779,336, 79,780,465,
      79,783,524, 79,785,526, 79,795,416, 79,803,7884, 79,808,490,
      80,769,7764, 80,775,7766, 82,769,340, 82,775,7768, 82,780,344,
      82,783,528, 82,785,530, 82,803,7770, 82,807,342, 82,817,7774,
      83,769,346, 83,770,348, 83,775,7776, 83,780,352, 83,803,7778,
      83,806,536, 83,807,350, 84,775,7786, 84,780,356, 84,803,7788,
      84,806,538, 84,807,354, 84,813,7792, 84,817,7790, 85,768,217,
      85,769,218, 85,770,219, 85,771,360, 85,772,362, 85,774,364,
      85,776,220, 85,777,7910, 85,778,366, 85,779,368, 85,780,467,
      85,783,532, 85,785,534, 85,795,431, 85,803,7908, 85,804,7794,
      85,808,370, 85,813,7798, 85,816,7796, 86,771,7804, 86,803,7806,
      87,768,7808, 87,769,7810, 87,770,372, 87,775,7814, 87,776,7812,
      87,803,7816, 88,775,7818, 88,776,7820, 89,768,7922, 89,769,221,
      89,770,374, 89,771,7928, 89,772,562, 89,775,7822, 89,776,376,
      89,777,7926, 89,803,7924, 90,769,377, 90,770,7824, 90,775,379,
      90,780,381, 90,803,7826, 90,817,7828, 97,768,224, 97,769,225,
      97,770,226, 97,771,227, 97,772,257, 97,774,259, 97,775,551,
      97,776,228, 97,777,7843, 97,778,229, 97,780,462, 97,783,513,
      97,785,515, 97,803,7841, 97,805,7681, 97,808,261, 98,775,7683,
      98,803,7685, 98,817,7687, 99,769,263, 99,770,265, 99,775,267,
      99,780,269, 99,807,231, 100,775,7691, 100,780,271, 100,803,7693,
      100,807,7697, 100,813,7699, 100,817,7695, 101,768,232, 101,769,233,
      101,770,234, 101,771,7869, 101,772,275, 101,774,277, 101,775,279,
      101,776,235, 101,777,7867, 101,780,283, 101,783,517, 101,785,519,
      101,803,7865, 101,807,553, 101,808,281, 101,813,7705, 101,816,7707,
      102,775,7711, 103,769,501, 103,770,285, 103,772,7713, 103,774,287,
      103,775,289, 103,780,487, 103,807,291, 104,770,293, 104,775,7715,
      104,776,7719, 104,780,543, 104,803,7717, 104,807,7721, 104,814,7723,
      104,817,7830, 105,768,236, 105,769,237, 105,770,238, 105,771,297,
      105,772,299, 105,774,301, 105,776,239, 105,777,7881, 105,780,464,
      105,783,521, 105,785,523, 105,803,7883, 105,808,303, 105,816,7725,
      106,770,309, 106,780,496, 107,769,7729, 107,780,489, 107,803,7731,
      107,807,311, 107,817,7733, 108,769,314, 108,780,318, 108,803,7735,
      108,807,316, 108,813,7741, 108,817,7739, 109,769,7743, 109,775,7745,
      109,803,7747, 110,768,505, 110,769,324, 110,771,241, 110,775,7749,
      110,780,328, 110,803,7751, 110,807,326, 110,813,7755, 110,817,7753,
      111,768,242, 111,769,243, 111,770,244, 111,771,245, 111,772,333,
      111,774,335, 111,775,559, 111,776,246, 111,777,7887, 111,779,337,
      111,780,466, 111,783,525, 111,785,527, 111,795,417, 111,803,7885,
      111,808,491, 112,769,7765, 112,775,7767, 114,769,341, 114,775,7769,
      114,780,345, 114,783,529, 114,785,531, 114,803,7771, 114,807,343,
      114,817,7775, 115,769,347, 115,770,349, 115,775,7777, 115,780,353,
      115,803,7779, 115,806,537, 115,807,351, 116,775,7787, 116,776,7831,
      116,780,357, 116,803,7789, 116,806,539, 116,807,355, 116,813,7793,
      116,817,7791, 117,768,249, 117,769,250, 117,770,251, 117,771,361,
      117,772,363, 117,774,365, 117,776,252, 117,777,7911, 117,778,367,
      117,779,369, 117,780,468, 117,783,533, 117,785,535, 117,795,432,
      117,803,7909, 117,804,7795, 117,808,371, 117,813,7799, 117,816,7797,
      118,771,7805, 118,803,7807, 119,768,7809, 119,769,7811, 119,770,373,
      119,775,7815, 119,776,7813, 119,778,7832, 119,803,7817, 120,775,7819,
      120,776,7821, 121,768,7923, 121,769,253, 121,770,375, 121,771,7929,
      121,772,563, 121,775,7823, 121,776,255, 121,777,7927, 121,778,7833,
      121,803,7925, 122,769,378, 122,770,7825, 122,775,380, 122,780,382,
      122,803,7827, 122,817,7829, 168,768,8173, 168,769,901, 168,834,8129,
      194,768,7846, 194,769,7844, 194,771,7850, 194,777,7848, 196,772,478,
      197,769,506, 198,769,508, 198,772,482, 199,769,7688, 202,768,7872,
      202,769,7870, 202,771,7876, 202,777,7874, 207,769,7726, 212,768,7890,
      212,769,7888, 212,771,7894, 212,777,7892, 213,769,7756, 213,772,556,
      213,776,7758, 214,772,554, 216,769,510, 220,768,475, 220,769,471,
      220,772,469, 220,780,473, 226,768,7847, 226,769,7845, 226,771,7851,
      226,777,7849, 228,772,479, 229,769,507, 230,769,509, 230,772,483,
      231,769,7689, 234,768,7873, 234,769,7871, 234,771,7877, 234,777,7875,
      239,769,7727, 244,768,7891, 244,769,7889, 244,771,7895, 244,777,7893,
      245,769,7757, 245,772,557, 245,776,7759, 246,772,555, 248,769,511,
      252,768,476, 252,769,472, 252,772,470, 252,780,474, 258,768,7856,
      258,769,7854, 258,771,7860, 258,777,7858, 259,768,7857, 259,769,7855,
      259,771,7861, 259,777,7859, 274,768,7700, 274,769,7702, 275,768,7701,
      275,769,7703, 332,768,7760, 332,769,7762, 333,768,7761, 333,769,7763,
      346,775,7780, 347,775,7781, 352,775,7782, 353,775,7783, 360,769,7800,
      361,769,7801, 362,776,7802, 363,776,7803, 383,775,7835, 416,768,7900,
      416,769,7898, 416,771,7904, 416,777,7902, 416,803,7906, 417,768,7901,
      417,769,7899, 417,771,7905, 417,777,7903, 417,803,7907, 431,768,7914,
      431,769,7912, 431,771,7918, 431,777,7916, 431,803,7920, 432,768,7915,
      432,769,7913, 432,771,7919, 432,777,7917, 432,803,7921, 439,780,494,
      490,772,492, 491,772,493, 550,772,480, 551,772,481, 552,774,7708,
      553,774,7709, 558,772,560, 559,772,561, 658,780,495, 913,768,8122,
      913,769,902, 913,772,8121, 913,774,8120, 913,787,7944, 913,788,7945,
      913,837,8124, 917,768,8136, 917,769,904, 917,787,7960, 917,788,7961,
      919,768,8138, 919,769,905, 919,787,7976, 919,788,7977, 919,837,8140,
      921,768,8154, 921,769,906, 921,772,8153, 921,774,8152, 921,776,938,
      921,787,7992, 921,788,7993, 927,768,8184, 927,769,908, 927,787,8008,
      927,788,8009, 929,788,8172, 933,768,8170, 933,769,910, 933,772,8169,
      933,774,8168, 933,776,939, 933,788,8025, 937,768,8186, 937,769,911,
      937,787,8040, 937,788,8041, 937,837,8188, 940,837,8116, 942,837,8132,
      945,768,8048, 945,769,940, 945,772,8113, 945,774,8112, 945,787,7936,
      945,788,7937, 945,834,8118, 945,837,8115, 949,768,8050, 949,769,941,
      949,787,7952, 949,788,7953, 951,768,8052, 951,769,942, 951,787,7968,
      951,788,7969, 951,834,8134, 951,837,8131, 953,768,8054, 953,769,943,
      953,772,8145, 953,774,8144, 953,776,970, 953,787,7984, 953,788,7985,
      953,834,8150, 959,768,8056, 959,769,972, 959,787,8000, 959,788,8001,
      961,787,8164, 961,788,8165, 965,768,8058, 965,769,973, 965,772,8161,
      965,774,8160, 965,776,971, 965,787,8016, 965,788,8017, 965,834,8166,
      969,768,8060, 969,769,974, 969,787,8032, 969,788,8033, 969,834,8182,
      969,837,8179, 970,768,8146, 970,769,912, 970,834,8151, 971,768,8162,
      971,769,944, 971,834,8167, 974,837,8180, 978,769,979, 978,776,980,
      1030,776,1031, 1040,774,1232, 1040,776,1234, 1043,769,1027,
      1045,768,1024, 1045,774,1238, 1045,776,1025, 1046,774,1217,
      1046,776,1244, 1047,776,1246, 1048,768,1037, 1048,772,1250,
      1048,774,1049, 1048,776,1252, 1050,769,1036, 1054,776,1254,
      1059,772,1262, 1059,774,1038, 1059,776,1264, 1059,779,1266,
      1063,776,1268, 1067,776,1272, 1069,776,1260, 1072,774,1233,
      1072,776,1235, 1075,769,1107, 1077,768,1104, 1077,774,1239,
      1077,776,1105, 1078,774,1218, 1078,776,1245, 1079,776,1247,
      1080,768,1117, 1080,772,1251, 1080,774,1081, 1080,776,1253,
      1082,769,1116, 1086,776,1255, 1091,772,1263, 1091,774,1118,
      1091,776,1265, 1091,779,1267, 1095,776,1269, 1099,776,1273,
      1101,776,1261, 1110,776,1111, 1140,783,1142, 1141,783,1143,
      1240,776,1242, 1241,776,1243, 1256,776,1258, 1257,776,1259,
      1575,1619,1570, 1575,1620,1571, 1575,1621,1573, 1608,1620,1572,
      1610,1620,1574, 1729,1620,1730, 1746,1620,1747, 1749,1620,1728,
      2344,2364,2345, 2352,2364,2353, 2355,2364,2356, 2503,2494,2507,
      2503,2519,2508, 2887,2878,2891, 2887,2902,2888, 2887,2903,2892,
      2962,3031,2964, 3014,3006,3018, 3014,3031,3020, 3015,3006,3019,
      3142,3158,3144, 3263,3285,3264, 3270,3266,3274, 3270,3285,3271,
      3270,3286,3272, 3274,3285,3275, 3398,3390,3402, 3398,3415,3404,
      3399,3390,3403, 3545,3530,3546, 3545,3535,3548, 3545,3551,3550,
      3548,3530,3549, 4133,4142,4134, 6917,6965,6918, 6919,6965,6920,
      6921,6965,6922, 6923,6965,6924, 6925,6965,6926, 6929,6965,6930,
      6970,6965,6971, 6972,6965,6973, 6974,6965,6976, 6975,6965,6977,
      6978,6965,6979, 7734,772,7736, 7735,772,7737, 7770,772,7772,
      7771,772,7773, 7778,775,7784, 7779,775,7785, 7840,770,7852,
      7840,774,7862, 7841,770,7853, 7841,774,7863, 7864,770,7878,
      7865,770,7879, 7884,770,7896, 7885,770,7897, 7936,768,7938,
      7936,769,7940, 7936,834,7942, 7936,837,8064, 7937,768,7939,
      7937,769,7941, 7937,834,7943, 7937,837,8065, 7938,837,8066,
      7939,837,8067, 7940,837,8068, 7941,837,8069, 7942,837,8070,
      7943,837,8071, 7944,768,7946, 7944,769,7948, 7944,834,7950,
      7944,837,8072, 7945,768,7947, 7945,769,7949, 7945,834,7951,
      7945,837,8073, 7946,837,8074, 7947,837,8075, 7948,837,8076,
      7949,837,8077, 7950,837,8078, 7951,837,8079, 7952,768,7954,
      7952,769,7956, 7953,768,7955, 7953,769,7957, 7960,768,7962,
      7960,769,7964, 7961,768,7963, 7961,769,7965, 7968,768,7970,
      7968,769,7972, 7968,834,7974, 7968,837,8080, 7969,768,7971,
      7969,769,7973, 7969,834,7975, 7969,837,8081, 7970,837,8082,
      7971,837,8083, 7972,837,8084, 7973,837,8085, 7974,837,8086,
      7975,837,8087, 7976,768,7978, 7976,769,7980, 7976,834,7982,
      7976,837,8088, 7977,768,7979, 7977,769,7981, 7977,834,7983,
      7977,837,8089, 7978,837,8090, 7979,837,8091, 7980,837,8092,
      7981,837,8093, 7982,837,8094, 7983,837,8095, 7984,768,7986,
      7984,769,7988, 7984,834,7990, 7985,768,7987, 7985,769,7989,
      7985,834,7991, 7992,768,7994, 7992,769,7996, 7992,834,7998,
      7993,768,7995, 7993,769,7997, 7993,834,7999, 8000,768,8002,
      8000,769,8004, 8001,768,8003, 8001,769,8005, 8008,768,8010,
      8008,769,8012, 8009,768,8011, 8009,769,8013, 8016,768,8018,
      8016,769,8020, 8016,834,8022, 8017,768,8019, 8017,769,8021,
      8017,834,8023, 8025,768,8027, 8025,769,8029, 8025,834,8031,
      8032,768,8034, 8032,769,8036, 8032,834,8038, 8032,837,8096,
      8033,768,8035, 8033,769,8037, 8033,834,8039, 8033,837,8097,
      8034,837,8098, 8035,837,8099, 8036,837,8100, 8037,837,8101,
      8038,837,8102, 8039,837,8103, 8040,768,8042, 8040,769,8044,
      8040,834,8046, 8040,837,8104, 8041,768,8043, 8041,769,8045,
      8041,834,8047, 8041,837,8105, 8042,837,8106, 8043,837,8107,
      8044,837,8108, 8045,837,8109, 8046,837,8110, 8047,837,8111,
      8048,837,8114, 8052,837,8130, 8060,837,8178, 8118,837,8119,
      8127,768,8141, 8127,769,8142, 8127,834,8143, 8134,837,8135,
      8182,837,8183, 8190,768,8157, 8190,769,8158, 8190,834,8159,
      8592,824,8602, 8594,824,8603, 8596,824,8622, 8656,824,8653,
      8658,824,8655, 8660,824,8654, 8707,824,8708, 8712,824,8713,
      8715,824,8716, 8739,824,8740, 8741,824,8742, 8764,824,8769,
      8771,824,8772, 8773,824,8775, 8776,824,8777, 8781,824,8813,
      8801,824,8802, 8804,824,8816, 8805,824,8817, 8818,824,8820,
      8819,824,8821, 8822,824,8824, 8823,824,8825, 8826,824,8832,
      8827,824,8833, 8828,824,8928, 8829,824,8929, 8834,824,8836,
      8835,824,8837, 8838,824,8840, 8839,824,8841, 8849,824,8930,
      8850,824,8931, 8866,824,8876, 8872,824,8877, 8873,824,8878,
      8875,824,8879, 8882,824,8938, 8883,824,8939, 8884,824,8940,
      8885,824,8941, 12358,12441,12436, 12363,12441,12364,
      12365,12441,12366, 12367,12441,12368, 12369,12441,12370,
      12371,12441,12372, 12373,12441,12374, 12375,12441,12376,
      12377,12441,12378, 12379,12441,12380, 12381,12441,12382,
      12383,12441,12384, 12385,12441,12386, 12388,12441,12389,
      12390,12441,12391, 12392,12441,12393, 12399,12441,12400,
      12399,12442,12401, 12402,12441,12403, 12402,12442,12404,
      12405,12441,12406, 12405,12442,12407, 12408,12441,12409,
      12408,12442,12410, 12411,12441,12412, 12411,12442,12413,
      12445,12441,12446, 12454,12441,12532, 12459,12441,12460,
      12461,12441,12462, 12463,12441,12464, 12465,12441,12466,
      12467,12441,12468, 12469,12441,12470, 12471,12441,12472,
      12473,12441,12474, 12475,12441,12476, 12477,12441,12478,
      12479,12441,12480, 12481,12441,12482, 12484,12441,12485,
      12486,12441,12487, 12488,12441,12489, 12495,12441,12496,
      12495,12442,12497, 12498,12441,12499, 12498,12442,12500,
      12501,12441,12502, 12501,12442,12503, 12504,12441,12505,
      12504,12442,12506, 12507,12441,12508, 12507,12442,12509,
      12527,12441,12535, 12528,12441,12536, 12529,12441,12537,
      12530,12441,12538, 12541,12441,12542, 69785,69818,69786,
      69787,69818,69788, 69797,69818,69803, 69937,69927,69934,
      69938,69927,69935, 70471,70462,70475, 70471,70487,70476,
      70841,70832,70844, 70841,70842,70843, 70841,70845,70846,
      71096,71087,71098, 71097,71087,71099, 71989,71984,71992>>

\* Canonical_Combining_Class; rows of two entries: the first code point
\* of a range, its class.
CombiningClass ==
    <<0,0, 768,230, 789,232, 790,220, 794,232, 795,216, 796,220, 801,202,
      803,220, 807,202, 809,220, 820,1, 825,220, 829,230, 837,240, 838,230,
      839,220, 842,230, 845,220, 847,0, 848,230, 851,220, 855,230, 856,232,
      857,220, 859,230, 860,233, 861,234, 863,233, 864,234, 866,233,
      867,230, 880,0, 1155,230, 1160,0, 1425,220, 1426,230, 1430,220,
      1431,230, 1434,222, 1435,220, 1436,230, 1442,220, 1448,230, 1450,220,
      1451,230, 1453,222, 1454,228, 1455,230, 1456,10, 1457,11, 1458,12,
      1459,13, 1460,14, 1461,15, 1462,16, 1463,17, 1464,18, 1465,19,
      1467,20, 1468,21, 1469,22, 1470,0, 1471,23, 1472,0, 1473,24, 1474,25,
      1475,0, 1476,230, 1477,220, 1478,0, 1479,18, 1480,0, 1552,230,
      1560,30, 1561,31, 1562,32, 1563,0, 1611,27, 1612,28, 1613,29, 1614,30,
      1615,31, 1616,32, 1617,33, 1618,34, 1619,230, 1621,220, 1623,230,
      1628,220, 1629,230, 1631,220, 1632,0, 1648,35, 1649,0, 1750,230,
      1757,0, 1759,230, 1763,220, 1764,230, 1765,0, 1767,230, 1769,0,
      1770,220, 1771,230, 1773,220, 1774,0, 1809,36, 1810,0, 1840,230,
      1841,220, 1842,230, 1844,220, 1845,230, 1847,220, 1850,230, 1851,220,
      1853,230, 1854,220, 1855,230, 1858,220, 1859,230, 1860,220, 1861,230,
      1862,220, 1863,230, 1864,220, 1865,230, 1867,0, 2027,230, 2034,220,
      2035,230, 2036,0, 2045,220, 2046,0, 2070,230, 2074,0, 2075,230,
      2084,0, 2085,230, 2088,0, 2089,230, 2094,0, 2137,220, 2140,0,
      2200,230, 2201,220, 2204,230, 2208,0, 2250,230, 2255,220, 2260,230,
      2274,0, 2275,220, 2276,230, 2278,220, 2279,230, 2281,220, 2282,230,
      2285,220, 2288,27, 2289,28, 2290,29, 2291,230, 2294,220, 2295,230,
      2297,220, 2299,230, 2304,0, 2364,7, 2365,0, 2381,9, 2382,0, 2385,230,
      2386,220, 2387,230, 2389,0, 2492,7, 2493,0, 2509,9, 2510,0, 2558,230,
      2559,0, 2620,7, 2621,0, 2637,9, 2638,0, 2748,7, 2749,0, 2765,9,
      2766,0, 2876,7, 2877,0, 2893,9, 2894,0, 3021,9, 3022,0, 3132,7,
      3133,0, 3149,9, 3150,0, 3157,84, 3158,91, 3159,0, 3260,7, 3261,0,
      3277,9, 3278,0, 3387,9, 3389,0, 3405,9, 3406,0, 3530,9, 3531,0,
      3640,103, 3642,9, 3643,0, 3656,107, 3660,0, 3768,118, 3770,9, 3771,0,
      3784,122, 3788,0, 3864,220, 3866,0, 3893,220, 3894,0, 3895,220,
      3896,0, 3897,216, 3898,0, 3953,129, 3954,130, 3955,0, 3956,132,
      3957,0, 3962,130, 3966,0, 3968,130, 3969,0, 3970,230, 3972,9, 3973,0,
      3974,230, 3976,0, 4038,220, 4039,0, 4151,7, 4152,0, 4153,9, 4155,0,
      4237,220, 4238,0, 4957,230, 4960,0, 5908,9, 5910,0, 5940,9, 5941,0,
      6098,9, 6099,0, 6109,230, 6110,0, 6313,228, 6314,0, 6457,222,
      6458,230, 6459,220, 6460,0, 6679,230, 6680,220, 6681,0, 6752,9,
      6753,0, 6773,230, 6781,0, 6783,220, 6784,0, 6832,230, 6837,220,
      6843,230, 6845,220, 6846,0, 6847,220, 6849,230, 6851,220, 6853,230,
      6858,220, 6859,230, 6863,0, 6964,7, 6965,0, 6980,9, 6981,0, 7019,230,
      7020,220, 7021,230, 7028,0, 7082,9, 7084,0, 7142,7, 7143,0, 7154,9,
      7156,0, 7223,7, 7224,0, 7376,230, 7379,0, 7380,1, 7381,220, 7386,230,
      7388,220, 7392,230, 7393,0, 7394,1, 7401,0, 7405,220, 7406,0,
      7412,230, 7413,0, 7416,230, 7418,0, 7616,230, 7618,220, 7619,230,
      7626,220, 7627,230, 7629,234, 7630,214, 7631,220, 7632,202, 7633,230,
      7670,232, 7671,228, 7673,220, 7674,218, 7675,230, 7676,233, 7677,220,
      7678,230, 7679,220, 7680,0, 8400,230, 8402,1, 8404,230, 8408,1,
      8411,230, 8413,0, 8417,230, 8418,0, 8421,1, 8423,230, 8424,220,
      8425,230, 8426,1, 8428,220, 8432,230, 8433,0, 11503,230, 11506,0,
      11647,9, 11648,0, 11744,230, 11776,0, 12330,218, 12331,228, 12332,232,
      12333,222, 12334,224, 12336,0, 12441,8, 12443,0, 42607,230, 42608,0,
      42612,230, 42622,0, 42654,230, 42656,0, 42736,230, 42738,0, 43014,9,
      43015,0, 43052,9, 43053,0, 43204,9, 43205,0, 43232,230, 43250,0,
      43307,220, 43310,0, 43347,9, 43348,0, 43443,7, 43444,0, 43456,9,
      43457,0, 43696,230, 43697,0, 43698,230, 43700,220, 43701,0, 43703,230,
      43705,0, 43710,230, 43712,0, 43713,230, 43714,0, 43766,9, 43767,0,
      44013,9, 44014,0, 64286,26, 64287,0, 65056,230, 65063,220, 65070,230,
      65072,0, 66045,220, 66046,0, 66272,220, 66273,0, 66422,230, 66427,0,
      68109,220, 68110,0, 68111,230, 68112,0, 68152,230, 68153,1, 68154,220,
      68155,0, 68159,9, 68160,0, 68325,230, 68326,220, 68327,0, 68900,230,
      68904,0, 69291,230, 69293,0, 69373,220, 69376,0, 69446,220, 69448,230,
      69451,220, 69452,230, 69453,220, 69457,0, 69506,230, 69507,220,
      69508,230, 69509,220, 69510,0, 69702,9, 69703,0, 69744,9, 69745,0,
      69759,9, 69760,0, 69817,9, 69818,7, 69819,0, 69888,230, 69891,0,
      69939,9, 69941,0, 70003,7, 70004,0, 70080,9, 70081,0, 70090,7,
      70091,0, 70197,9, 70198,7, 70199,0, 70377,7, 70378,9, 70379,0,
      70459,7, 70461,0, 70477,9, 70478,0, 70502,230, 70509,0, 70512,230,
      70517,0, 70722,9, 70723,0, 70726,7, 70727,0, 70750,230, 70751,0,
      70850,9, 70851,7, 70852,0, 71103,9, 71104,7, 71105,0, 71231,9,
      71232,0, 71350,9, 71351,7, 71352,0, 71467,9, 71468,0, 71737,9,
      71738,7, 71739,0, 71997,9, 71999,0, 72003,7, 72004,0, 72160,9,
      72161,0, 72244,9, 72245,0, 72263,9, 72264,0, 72345,9, 72346,0,
      72767,9, 72768,0, 73026,7, 73027,0, 73028,9, 73030,0, 73111,9,
      73112,0, 73537,9, 73539,0, 92912,1, 92917,0, 92976,230, 92983,0,
      94192,6, 94194,0, 113822,1, 113823,0, 119141,216, 119143,1, 119146,0,
      119149,226, 119150,216, 119155,0, 119163,220, 119171,0, 119173,230,
      119178,220, 119180,0, 119210,230, 119214,0, 119362,230, 119365,0,
      122880,230, 122887,0, 122888,230, 122905,0, 122907,230, 122914,0,
      122915,230, 122917,0, 122918,230, 122923,0, 123023,230, 123024,0,
      123184,230, 123191,0, 123566,230, 123567,0, 123628,230, 123632,0,
      124140,232, 124142,220, 124143,230, 124144,0, 125136,220, 125143,0,
      125252,230, 125258,7, 125259,0>>

\* General_Category Mark (Mn, Mc, Me); rows of two entries: the first
\* code point of a range, whether its code points are marks.
GeneralCategoryMark ==
    <<0,FALSE, 768,TRUE, 880,FALSE, 1155,TRUE, 1162,FALSE, 1425,TRUE,
      1470,FALSE, 1471,TRUE, 1472,FALSE, 1473,TRUE, 1475,FALSE, 1476,TRUE,
      1478,FALSE, 1479,TRUE, 1480,FALSE, 1552,TRUE, 1563,FALSE, 1611,TRUE,
      1632,FALSE, 1648,TRUE, 1649,FALSE, 1750,TRUE, 1757,FALSE, 1759,TRUE,
      1765,FALSE, 1767,TRUE, 1769,FALSE, 1770,TRUE, 1774,FALSE, 1809,TRUE,
      1810,FALSE, 1840,TRUE, 1867,FALSE, 1958,TRUE, 1969,FALSE, 2027,TRUE,
      2036,FALSE, 2045,TRUE, 2046,FALSE, 2070,TRUE, 2074,FALSE, 2075,TRUE,
      2084,FALSE, 2085,TRUE, 2088,FALSE, 2089,TRUE, 2094,FALSE, 2137,TRUE,
      2140,FALSE, 2200,TRUE, 2208,FALSE, 2250,TRUE, 2274,FALSE, 2275,TRUE,
      2308,FALSE, 2362,TRUE, 2365,FALSE, 2366,TRUE, 2384,FALSE, 2385,TRUE,
      2392,FALSE, 2402,TRUE, 2404,FALSE, 2433,TRUE, 2436,FALSE, 2492,TRUE,
      2493,FALSE, 2494,TRUE, 2501,FALSE, 2503,TRUE, 2505,FALSE, 2507,TRUE,
      2510,FALSE, 2519,TRUE, 2520,FALSE, 2530,TRUE, 2532,FALSE, 2558,TRUE,
      2559,FALSE, 2561,TRUE, 2564,FALSE, 2620,TRUE, 2621,FALSE, 2622,TRUE,
      2627,FALSE, 2631,TRUE, 2633,FALSE, 2635,TRUE, 2638,FALSE, 2641,TRUE,
      2642,FALSE, 2672,TRUE, 2674,FALSE, 2677,TRUE, 2678,FALSE, 2689,TRUE,
      2692,FALSE, 2748,TRUE, 2749,FALSE, 2750,TRUE, 2758,FALSE, 2759,TRUE,
      2762,FALSE, 2763,TRUE, 2766,FALSE, 2786,TRUE, 2788,FALSE, 2810,TRUE,
      2816,FALSE, 2817,TRUE, 2820,FALSE, 2876,TRUE, 2877,FALSE, 2878,TRUE,
      2885,FALSE, 2887,TRUE, 2889,FALSE, 2891,TRUE, 2894,FALSE, 2901,TRUE,
      2904,FALSE, 2914,TRUE, 2916,FALSE, 2946,TRUE, 2947,FALSE, 3006,TRUE,
      3011,FALSE, 3014,TRUE, 3017,FALSE, 3018,TRUE, 3022,FALSE, 3031,TRUE,
      3032,FALSE, 3072,TRUE, 3077,FALSE, 3132,TRUE, 3133,FALSE, 3134,TRUE,
      3141,FALSE, 3142,TRUE, 3145,FALSE, 3146,TRUE, 3150,FALSE, 3157,TRUE,
      3159,FALSE, 3170,TRUE, 3172,FALSE, 3201,TRUE, 3204,FALSE, 3260,TRUE,
      3261,FALSE, 3262,TRUE, 3269,FALSE, 3270,TRUE, 3273,FALSE, 3274,TRUE,
      3278,FALSE, 3285,TRUE, 3287,FALSE, 3298,TRUE, 3300,FALSE, 3315,TRUE,
      3316,FALSE, 3328,TRUE, 3332,FALSE, 3387,TRUE, 3389,FALSE, 3390,TRUE,
      3397,FALSE, 3398,TRUE, 3401,FALSE, 3402,TRUE, 3406,FALSE, 3415,TRUE,
      3416,FALSE, 3426,TRUE, 3428,FALSE, 3457,TRUE, 3460,FALSE, 3530,TRUE,
      3531,FALSE, 3535,TRUE, 3541,FALSE, 3542,TRUE, 3543,FALSE, 3544,TRUE,
      3552,FALSE, 3570,TRUE, 3572,FALSE, 3633,TRUE, 3634,FALSE, 3636,TRUE,
      3643,FALSE, 3655,TRUE, 3663,FALSE, 3761,TRUE, 3762,FALSE, 3764,TRUE,
      3773,FALSE, 3784,TRUE, 3791,FALSE, 3864,TRUE, 3866,FALSE, 3893,TRUE,
      3894,FALSE, 3895,TRUE, 3896,FALSE, 3897,TRUE, 3898,FALSE, 3902,TRUE,
      3904,FALSE, 3953,TRUE, 3973,FALSE, 3974,TRUE, 3976,FALSE, 3981,TRUE,
      3992,FALSE, 3993,TRUE, 4029,FALSE, 4038,TRUE, 4039,FALSE, 4139,TRUE,
      4159,FALSE, 4182,TRUE, 4186,FALSE, 4190,TRUE, 4193,FALSE, 4194,TRUE,
      4197,FALSE, 4199,TRUE, 4206,FALSE, 4209,TRUE, 4213,FALSE, 4226,TRUE,
      4238,FALSE, 4239,TRUE, 4240,FALSE, 4250,TRUE, 4254,FALSE, 4957,TRUE,
      4960,FALSE, 5906,TRUE, 5910,FALSE, 5938,TRUE, 5941,FALSE, 5970,TRUE,
      5972,FALSE, 6002,TRUE, 6004,FALSE, 6068,TRUE, 6100,FALSE, 6109,TRUE,
      6110,FALSE, 6155,TRUE, 6158,FALSE, 6159,TRUE, 6160,FALSE, 6277,TRUE,
      6279,FALSE, 6313,TRUE, 6314,FALSE, 6432,TRUE, 6444,FALSE, 6448,TRUE,
      6460,FALSE, 6679,TRUE, 6684,FALSE, 6741,TRUE, 6751,FALSE, 6752,TRUE,
      6781,FALSE, 6783,TRUE, 6784,FALSE, 6832,TRUE, 6863,FALSE, 6912,TRUE,
      6917,FALSE, 6964,TRUE, 6981,FALSE, 7019,TRUE, 7028,FALSE, 7040,TRUE,
      7043,FALSE, 7073,TRUE, 7086,FALSE, 7142,TRUE, 7156,FALSE, 7204,TRUE,
      7224,FALSE, 7376,TRUE, 7379,FALSE, 7380,TRUE, 7401,FALSE, 7405,TRUE,
      7406,FALSE, 7412,TRUE, 7413,FALSE, 7415,TRUE, 7418,FALSE, 7616,TRUE,
      7680,FALSE, 8400,TRUE, 8433,FALSE, 11503,TRUE, 11506,FALSE,
      11647,TRUE, 11648,FALSE, 11744,TRUE, 11776,FALSE, 12330,TRUE,
      12336,FALSE, 12441,TRUE, 12443,FALSE, 42607,TRUE, 42611,FALSE,
      42612,TRUE, 42622,FALSE, 42654,TRUE, 42656,FALSE, 42736,TRUE,
      42738,FALSE, 43010,TRUE, 43011,FALSE, 43014,TRUE, 43015,FALSE,
      43019,TRUE, 43020,FALSE, 43043,TRUE, 43048,FALSE, 43052,TRUE,
      43053,FALSE, 43136,TRUE, 43138,FALSE, 43188,TRUE, 43206,FALSE,
      43232,TRUE, 43250,FALSE, 43263,TRUE, 43264,FALSE, 43302,TRUE,
      43310,FALSE, 43335,TRUE, 43348,FALSE, 43392,TRUE, 43396,FALSE,
      43443,TRUE, 43457,FALSE, 43493,TRUE, 43494,FALSE, 43561,TRUE,
      43575,FALSE, 43587,TRUE, 43588,FALSE, 43596,TRUE, 43598,FALSE,
      43643,TRUE, 43646,FALSE, 43696,TRUE, 43697,FALSE, 43698,TRUE,
      43701,FALSE, 43703,TRUE, 43705,FALSE, 43710,TRUE, 43712,FALSE,
      43713,TRUE, 43714,FALSE, 43755,TRUE, 43760,FALSE, 43765,TRUE,
      43767,FALSE, 44003,TRUE, 44011,FALSE, 44012,TRUE, 44014,FALSE,
      64286,TRUE, 64287,FALSE, 65024,TRUE, 65040,FALSE, 65056,TRUE,
      65072,FALSE, 66045,TRUE, 66046,FALSE, 66272,TRUE, 66273,FALSE,
      66422,TRUE, 66427,FALSE, 68097,TRUE, 68100,FALSE, 68101,TRUE,
      68103,FALSE, 68108,TRUE, 68112,FALSE, 68152,TRUE, 68155,FALSE,
      68159,TRUE, 68160,FALSE, 68325,TRUE, 68327,FALSE, 68900,TRUE,
      68904,FALSE, 69291,TRUE, 69293,FALSE, 69373,TRUE, 69376,FALSE,
      69446,TRUE, 69457,FALSE, 69506,TRUE, 69510,FALSE, 69632,TRUE,
      69635,FALSE, 69688,TRUE, 69703,FALSE, 69744,TRUE, 69745,FALSE,
      69747,TRUE, 69749,FALSE, 69759,TRUE, 69763,FALSE, 69808,TRUE,
      69819,FALSE, 69826,TRUE, 69827,FALSE, 69888,TRUE, 69891,FALSE,
      69927,TRUE, 69941,FALSE, 69957,TRUE, 69959,FALSE, 70003,TRUE,
      70004,FALSE, 70016,TRUE, 70019,FALSE, 70067,TRUE, 70081,FALSE,
      70089,TRUE, 70093,FALSE, 70094,TRUE, 70096,FALSE, 70188,TRUE,
      70200,FALSE, 70206,TRUE, 70207,FALSE, 70209,TRUE, 70210,FALSE,
      70367,TRUE, 70379,FALSE, 70400,TRUE, 70404,FALSE, 70459,TRUE,
      70461,FALSE, 70462,TRUE, 70469,FALSE, 70471,TRUE, 70473,FALSE,
      70475,TRUE, 70478,FALSE, 70487,TRUE, 70488,FALSE, 70498,TRUE,
      70500,FALSE, 70502,TRUE, 70509,FALSE, 70512,TRUE, 70517,FALSE,
      70709,TRUE, 70727,FALSE, 70750,TRUE, 70751,FALSE, 70832,TRUE,
      70852,FALSE, 71087,TRUE, 71094,FALSE, 71096,TRUE, 71105,FALSE,
      71132,TRUE, 71134,FALSE, 71216,TRUE, 71233,FALSE, 71339,TRUE,
      71352,FALSE, 71453,TRUE, 71468,FALSE, 71724,TRUE, 71739,FALSE,
      71984,TRUE, 71990,FALSE, 71991,TRUE, 71993,FALSE, 71995,TRUE,
      71999,FALSE, 72000,TRUE, 72001,FALSE, 72002,TRUE, 72004,FALSE,
      72145,TRUE, 72152,FALSE, 72154,TRUE, 72161,FALSE, 72164,TRUE,
      72165,FALSE, 72193,TRUE, 72203,FALSE, 72243,TRUE, 72250,FALSE,
      72251,TRUE, 72255,FALSE, 72263,TRUE, 72264,FALSE, 72273,TRUE,
      72284,FALSE, 72330,TRUE, 72346,FALSE, 72751,TRUE, 72759,FALSE,
      72760,TRUE, 72768,FALSE, 72850,TRUE, 72872,FALSE, 72873,TRUE,
      72887,FALSE, 73009,TRUE, 73015,FALSE, 73018,TRUE, 73019,FALSE,
      73020,TRUE, 73022,FALSE, 73023,TRUE, 73030,FALSE, 73031,TRUE,
      73032,FALSE, 73098,TRUE, 73103,FALSE, 73104,TRUE, 73106,FALSE,
      73107,TRUE, 73112,FALSE, 73459,TRUE, 73463,FALSE, 73472,TRUE,
      73474,FALSE, 73475,TRUE, 73476,FALSE, 73524,TRUE, 73531,FALSE,
      73534,TRUE, 73539,FALSE, 78912,TRUE, 78913,FALSE, 78919,TRUE,
      78934,FALSE, 92912,TRUE, 92917,FALSE, 92976,TRUE, 92983,FALSE,
      94031,TRUE, 94032,FALSE, 94033,TRUE, 94088,FALSE, 94095,TRUE,
      94099,FALSE, 94180,TRUE, 94181,FALSE, 94192,TRUE, 94194,FALSE,
      113821,TRUE, 113823,FALSE, 118528,TRUE, 118574,FALSE, 118576,TRUE,
      118599,FALSE, 119141,TRUE, 119146,FALSE, 119149,TRUE, 119155,FALSE,
      119163,TRUE, 119171,FALSE, 119173,TRUE, 119180,FALSE, 119210,TRUE,
      119214,FALSE, 119362,TRUE, 119365,FALSE, 121344,TRUE, 121399,FALSE,
      121403,TRUE, 121453,FALSE, 121461,TRUE, 121462,FALSE, 121476,TRUE,
      121477,FALSE, 121499,TRUE, 121504,FALSE, 121505,TRUE, 121520,FALSE,
      122880,TRUE, 122887,FALSE, 122888,TRUE, 122905,FALSE, 122907,TRUE,
      122914,FALSE, 122915,TRUE, 122917,FALSE, 122918,TRUE, 122923,FALSE,
      123023,TRUE, 123024,FALSE, 123184,TRUE, 123191,FALSE, 123566,TRUE,
      123567,FALSE, 123628,TRUE, 123632,FALSE, 124140,TRUE, 124144,FALSE,
      125136,TRUE, 125143,FALSE, 125252,TRUE, 125259,FALSE, 917760,TRUE,
      918000,FALSE>>

\* Bidi_Class; rows of two entries: the first code point of a range, its
\* class.
BidiClass ==
    <<0,"BN", 9,"S", 10,"B", 11,"S", 12,"WS", 13,"B", 14,"BN", 28,"B",
      31,"S", 32,"WS", 33,"ON", 35,"ET", 38,"ON", 43,"ES", 44,"CS", 45,"ES",
      46,"CS", 48,"EN", 58,"CS", 59,"ON", 65,"L", 91,"ON", 97,"L", 123,"ON",
      127,"BN", 133,"B", 134,"BN", 160,"CS", 161,"ON", 162,"ET", 166,"ON",
      170,"L", 171,"ON", 173,"BN", 174,"ON", 176,"ET", 178,"EN", 180,"ON",
      181,"L", 182,"ON", 185,"EN", 186,"L", 187,"ON", 192,"L", 215,"ON",
      216,"L", 247,"ON", 248,"L", 697,"ON", 699,"L", 706,"ON", 720,"L",
      722,"ON", 736,"L", 741,"ON", 750,"L", 751,"ON", 768,"NSM", 880,"L",
      884,"ON", 886,"L", 894,"ON", 895,"L", 900,"ON", 902,"L", 903,"ON",
      904,"L", 1014,"ON", 1015,"L", 1155,"NSM", 1162,"L", 1418,"ON",
      1419,"L", 1421,"ON", 1423,"ET", 1424,"R", 1425,"NSM", 1470,"R",
      1471,"NSM", 1472,"R", 1473,"NSM", 1475,"R", 1476,"NSM", 1478,"R",
      1479,"NSM", 1480,"R", 1536,"AN", 1542,"ON", 1544,"AL", 1545,"ET",
      1547,"AL", 1548,"CS", 1549,"AL", 1550,"ON", 1552,"NSM", 1563,"AL",
      1611,"NSM", 1632,"AN", 1642,"ET", 1643,"AN", 1645,"AL", 1648,"NSM",
      1649,"AL", 1750,"NSM", 1757,"AN", 1758,"ON", 1759,"NSM", 1765,"AL",
      1767,"NSM", 1769,"ON", 1770,"NSM", 1774,"AL", 1776,"EN", 1786,"AL",
      1809,"NSM", 1810,"AL", 1840,"NSM", 1867,"AL", 1958,"NSM", 1969,"AL",
      1984,"R", 2027,"NSM", 2036,"R", 2038,"ON", 2042,"R", 2045,"NSM",
      2046,"R", 2070,"NSM", 2074,"R", 2075,"NSM", 2084,"R", 2085,"NSM",
      2088,"R", 2089,"NSM", 2094,"R", 2137,"NSM", 2140,"R", 2144,"AL",
      2192,"AN", 2194,"AL", 2200,"NSM", 2208,"AL", 2250,"NSM", 2274,"AN",
      2275,"NSM", 2307,"L", 2362,"NSM", 2363,"L", 2364,"NSM", 2365,"L",
      2369,"NSM", 2377,"L", 2381,"NSM", 2382,"L", 2385,"NSM", 2392,"L",
      2402,"NSM", 2404,"L", 2433,"NSM", 2434,"L", 2492,"NSM", 2493,"L",
      2497,"NSM", 2501,"L", 2509,"NSM", 2510,"L", 2530,"NSM", 2532,"L",
      2546,"ET", 2548,"L", 2555,"ET", 2556,"L", 2558,"NSM", 2559,"L",
      2561,"NSM", 2563,"L", 2620,"NSM", 2621,"L", 2625,"NSM", 2627,"L",
      2631,"NSM", 2633,"L", 2635,"NSM", 2638,"L", 2641,"NSM", 2642,"L",
      2672,"NSM", 2674,"L", 2677,"NSM", 2678,"L", 2689,"NSM", 2691,"L",
      2748,"NSM", 2749,"L", 2753,"NSM", 2758,"L", 2759,"NSM", 2761,"L",
      2765,"NSM", 2766,"L", 2786,"NSM", 2788,"L", 2801,"ET", 2802,"L",
      2810,"NSM", 2816,"L", 2817,"NSM", 2818,"L", 2876,"NSM", 2877,"L",
      2879,"NSM", 2880,"L", 2881,"NSM", 2885,"L", 2893,"NSM", 2894,"L",
      2901,"NSM", 2903,"L", 2914,"NSM", 2916,"L", 2946,"NSM", 2947,"L",
      3008,"NSM", 3009,"L", 3021,"NSM", 3022,"L", 3059,"ON", 3065,"ET",
      3066,"ON", 3067,"L", 3072,"NSM", 3073,"L", 3076,"NSM", 3077,"L",
      3132,"NSM", 3133,"L", 3134,"NSM", 3137,"L", 3142,"NSM", 3145,"L",
      3146,"NSM", 3150,"L", 3157,"NSM", 3159,"L", 3170,"NSM", 3172,"L",
      3192,"ON", 3199,"L", 3201,"NSM", 3202,"L", 3260,"NSM", 3261,"L",
      3276,"NSM", 3278,"L", 3298,"NSM", 3300,"L", 3328,"NSM", 3330,"L",
      3387,"NSM", 3389,"L", 3393,"NSM", 3397,"L", 3405,"NSM", 3406,"L",
      3426,"NSM", 3428,"L", 3457,"NSM", 3458,"L", 3530,"NSM", 3531,"L",
      3538,"NSM", 3541,"L", 3542,"NSM", 3543,"L", 3633,"NSM", 3634,"L",
      3636,"NSM", 3643,"L", 3647,"ET", 3648,"L", 3655,"NSM", 3663,"L",
      3761,"NSM", 3762,"L", 3764,"NSM", 3773,"L", 3784,"NSM", 3791,"L",
      3864,"NSM", 3866,"L", 3893,"NSM", 3894,"L", 3895,"NSM", 3896,"L",
      3897,"NSM", 3898,"ON", 3902,"L", 3953,"NSM", 3967,"L", 3968,"NSM",
      3973,"L", 3974,"NSM", 3976,"L", 3981,"NSM", 3992,"L", 3993,"NSM",
      4029,"L", 4038,"NSM", 4039,"L", 4141,"NSM", 4145,"L", 4146,"NSM",
      4152,"L", 4153,"NSM", 4155,"L", 4157,"NSM", 4159,"L", 4184,"NSM",
      4186,"L", 4190,"NSM", 4193,"L", 4209,"NSM", 4213,"L", 4226,"NSM",
      4227,"L", 4229,"NSM", 4231,"L", 4237,"NSM", 4238,"L", 4253,"NSM",
      4254,"L", 4957,"NSM", 4960,"L", 5008,"ON", 5018,"L", 5120,"ON",
      5121,"L", 5760,"WS", 5761,"L", 5787,"ON", 5789,"L", 5906,"NSM",
      5909,"L", 5938,"NSM", 5940,"L", 5970,"NSM", 5972,"L", 6002,"NSM",
      6004,"L", 6068,"NSM", 6070,"L", 6071,"NSM", 6078,"L", 6086,"NSM",
      6087,"L", 6089,"NSM", 6100,"L", 6107,"ET", 6108,"L", 6109,"NSM",
      6110,"L", 6128,"ON", 6138,"L", 6144,"ON", 6155,"NSM", 6158,"BN",
      6159,"NSM", 6160,"L", 6277,"NSM", 6279,"L", 6313,"NSM", 6314,"L",
      6432,"NSM", 6435,"L", 6439,"NSM", 6441,"L", 6450,"NSM", 6451,"L",
      6457,"NSM", 6460,"L", 6464,"ON", 6465,"L", 6468,"ON", 6470,"L",
      6622,"ON", 6656,"L", 6679,"NSM", 6681,"L", 6683,"NSM", 6684,"L",
      6742,"NSM", 6743,"L", 6744,"NSM", 6751,"L", 6752,"NSM", 6753,"L",
      6754,"NSM", 6755,"L", 6757,"NSM", 6765,"L", 6771,"NSM", 6781,"L",
      6783,"NSM", 6784,"L", 6832,"NSM", 6863,"L", 6912,"NSM", 6916,"L",
      6964,"NSM", 6965,"L", 6966,"NSM", 6971,"L", 6972,"NSM", 6973,"L",
      6978,"NSM", 6979,"L", 7019,"NSM", 7028,"L", 7040,"NSM", 7042,"L",
      7074,"NSM", 7078,"L", 7080,"NSM", 7082,"L", 7083,"NSM", 7086,"L",
      7142,"NSM", 7143,"L", 7144,"NSM", 7146,"L", 7149,"NSM", 7150,"L",
      7151,"NSM", 7154,"L", 7212,"NSM", 7220,"L", 7222,"NSM", 7224,"L",
      7376,"NSM", 7379,"L", 7380,"NSM", 7393,"L", 7394,"NSM", 7401,"L",
      7405,"NSM", 7406,"L", 7412,"NSM", 7413,"L", 7416,"NSM", 7418,"L",
      7616,"NSM", 7680,"L", 8125,"ON", 8126,"L", 8127,"ON", 8130,"L",
      8141,"ON", 8144,"L", 8157,"ON", 8160,"L", 8173,"ON", 8176,"L",
      8189,"ON", 8191,"L", 8192,"WS", 8203,"BN", 8206,"L", 8207,"R",
      8208,"ON", 8232,"WS", 8233,"B", 8234,"LRE", 8235,"RLE", 8236,"PDF",
      8237,"LRO", 8238,"RLO", 8239,"CS", 8240,"ET", 8245,"ON", 8260,"CS",
      8261,"ON", 8287,"WS", 8288,"BN", 8294,"RLI", 8295,"FSI", 8296,"LRI",
      8297,"PDI", 8298,"BN", 8304,"EN", 8305,"L", 8308,"EN", 8314,"ES",
      8316,"ON", 8319,"L", 8320,"EN", 8330,"ES", 8332,"ON", 8335,"L",
      8352,"ET", 8400,"NSM", 8433,"L", 8448,"ON", 8450,"L", 8451,"ON",
      8455,"L", 8456,"ON", 8458,"L", 8468,"ON", 8469,"L", 8470,"ON",
      8473,"L", 8478,"ON", 8484,"L", 8485,"ON", 8486,"L", 8487,"ON",
      8488,"L", 8489,"ON", 8490,"L", 8494,"ET", 8495,"L", 8506,"ON",
      8508,"L", 8512,"ON", 8517,"L", 8522,"ON", 8526,"L", 8528,"ON",
      8544,"L", 8585,"ON", 8588,"L", 8592,"ON", 8722,"ES", 8723,"ET",
      8724,"ON", 9014,"L", 9083,"ON", 9109,"L", 9110,"ON", 9255,"L",
      9280,"ON", 9291,"L", 9312,"ON", 9352,"EN", 9372,"L", 9450,"ON",
      9900,"L", 9901,"ON", 10240,"L", 10496,"ON", 11124,"L", 11126,"ON",
      11158,"L", 11159,"ON", 11264,"L", 11493,"ON", 11499,"L", 11503,"NSM",
      11506,"L", 11513,"ON", 11520,"L", 11647,"NSM", 11648,"L", 11744,"NSM",
      11776,"ON", 11870,"L", 11904,"ON", 11930,"L", 11931,"ON", 12020,"L",
      12032,"ON", 12246,"L", 12272,"ON", 12284,"L", 12288,"WS", 12289,"ON",
      12293,"L", 12296,"ON", 12321,"L", 12330,"NSM", 12334,"L", 12336,"ON",
      12337,"L", 12342,"ON", 12344,"L", 12349,"ON", 12352,"L", 12441,"NSM",
      12443,"ON", 12445,"L", 12448,"ON", 12449,"L", 12539,"ON", 12540,"L",
      12736,"ON", 12772,"L", 12829,"ON", 12831,"L", 12880,"ON", 12896,"L",
      12924,"ON", 12927,"L", 12977,"ON", 12992,"L", 13004,"ON", 13008,"L",
      13175,"ON", 13179,"L", 13278,"ON", 13280,"L", 13311,"ON", 13312,"L",
      19904,"ON", 19968,"L", 42128,"ON", 42183,"L", 42509,"ON", 42512,"L",
      42607,"NSM", 42611,"ON", 42612,"NSM", 42622,"ON", 42624,"L",
      42654,"NSM", 42656,"L", 42736,"NSM", 42738,"L", 42752,"ON", 42786,"L",
      42888,"ON", 42889,"L", 43010,"NSM", 43011,"L", 43014,"NSM", 43015,"L",
      43019,"NSM", 43020,"L", 43045,"NSM", 43047,"L", 43048,"ON",
      43052,"NSM", 43053,"L", 43064,"ET", 43066,"L", 43124,"ON", 43128,"L",
      43204,"NSM", 43206,"L", 43232,"NSM", 43250,"L", 43263,"NSM",
      43264,"L", 43302,"NSM", 43310,"L", 43335,"NSM", 43346,"L",
      43392,"NSM", 43395,"L", 43443,"NSM", 43444,"L", 43446,"NSM",
      43450,"L", 43452,"NSM", 43454,"L", 43493,"NSM", 43494,"L",
      43561,"NSM", 43567,"L", 43569,"NSM", 43571,"L", 43573,"NSM",
      43575,"L", 43587,"NSM", 43588,"L", 43596,"NSM", 43597,"L",
      43644,"NSM", 43645,"L", 43696,"NSM", 43697,"L", 43698,"NSM",
      43701,"L", 43703,"NSM", 43705,"L", 43710,"NSM", 43712,"L",
      43713,"NSM", 43714,"L", 43756,"NSM", 43758,"L", 43766,"NSM",
      43767,"L", 43882,"ON", 43884,"L", 44005,"NSM", 44006,"L", 44008,"NSM",
      44009,"L", 44013,"NSM", 44014,"L", 64285,"R", 64286,"NSM", 64287,"R",
      64297,"ES", 64298,"R", 64336,"AL", 64830,"ON", 64848,"AL", 64975,"ON",
      64976,"BN", 65008,"AL", 65021,"ON", 65024,"NSM", 65040,"ON",
      65050,"L", 65056,"NSM", 65072,"ON", 65104,"CS", 65105,"ON",
      65106,"CS", 65107,"L", 65108,"ON", 65109,"CS", 65110,"ON", 65119,"ET",
      65120,"ON", 65122,"ES", 65124,"ON", 65127,"L", 65128,"ON", 65129,"ET",
      65131,"ON", 65132,"L", 65136,"AL", 65279,"BN", 65280,"L", 65281,"ON",
      65283,"ET", 65286,"ON", 65291,"ES", 65292,"CS", 65293,"ES",
      65294,"CS", 65296,"EN", 65306,"CS", 65307,"ON", 65313,"L", 65339,"ON",
      65345,"L", 65371,"ON", 65382,"L", 65504,"ET", 65506,"ON", 65509,"ET",
      65511,"L", 65512,"ON", 65519,"L", 65520,"BN", 65529,"ON", 65534,"BN",
      65536,"L", 65793,"ON", 65794,"L", 65856,"ON", 65933,"L", 65936,"ON",
      65949,"L", 65952,"ON", 65953,"L", 66045,"NSM", 66046,"L", 66272,"NSM",
      66273,"EN", 66300,"L", 66422,"NSM", 66427,"L", 67584,"R", 67871,"ON",
      67872,"R", 68097,"NSM", 68100,"R", 68101,"NSM", 68103,"R",
      68108,"NSM", 68112,"R", 68152,"NSM", 68155,"R", 68159,"NSM",
      68160,"R", 68325,"NSM", 68327,"R", 68409,"ON", 68416,"R", 68864,"AL",
      68900,"NSM", 68904,"AL", 68912,"AN", 68922,"AL", 68928,"R",
      69216,"AN", 69247,"R", 69291,"NSM", 69293,"R", 69312,"AL",
      69373,"NSM", 69376,"R", 69424,"AL", 69446,"NSM", 69457,"AL",
      69488,"R", 69506,"NSM", 69510,"R", 69632,"L", 69633,"NSM", 69634,"L",
      69688,"NSM", 69703,"L", 69714,"ON", 69734,"L", 69744,"NSM", 69745,"L",
      69747,"NSM", 69749,"L", 69759,"NSM", 69762,"L", 69811,"NSM",
      69815,"L", 69817,"NSM", 69819,"L", 69826,"NSM", 69827,"L",
      69888,"NSM", 69891,"L", 69927,"NSM", 69932,"L", 69933,"NSM",
      69941,"L", 70003,"NSM", 70004,"L", 70016,"NSM", 70018,"L",
      70070,"NSM", 70079,"L", 70089,"NSM", 70093,"L", 70095,"NSM",
      70096,"L", 70191,"NSM", 70194,"L", 70196,"NSM", 70197,"L",
      70198,"NSM", 70200,"L", 70206,"NSM", 70207,"L", 70209,"NSM",
      70210,"L", 70367,"NSM", 70368,"L", 70371,"NSM", 70379,"L",
      70400,"NSM", 70402,"L", 70459,"NSM", 70461,"L", 70464,"NSM",
      70465,"L", 70502,"NSM", 70509,"L", 70512,"NSM", 70517,"L",
      70712,"NSM", 70720,"L", 70722,"NSM", 70725,"L", 70726,"NSM",
      70727,"L", 70750,"NSM", 70751,"L", 70835,"NSM", 70841,"L",
      70842,"NSM", 70843,"L", 70847,"NSM", 70849,"L", 70850,"NSM",
      70852,"L", 71090,"NSM", 71094,"L", 71100,"NSM", 71102,"L",
      71103,"NSM", 71105,"L", 71132,"NSM", 71134,"L", 71219,"NSM",
      71227,"L", 71229,"NSM", 71230,"L", 71231,"NSM", 71233,"L", 71264,"ON",
      71277,"L", 71339,"NSM", 71340,"L", 71341,"NSM", 71342,"L",
      71344,"NSM", 71350,"L", 71351,"NSM", 71352,"L", 71453,"NSM",
      71456,"L", 71458,"NSM", 71462,"L", 71463,"NSM", 71468,"L",
      71727,"NSM", 71736,"L", 71737,"NSM", 71739,"L", 71995,"NSM",
      71997,"L", 71998,"NSM", 71999,"L", 72003,"NSM", 72004,"L",
      72148,"NSM", 72152,"L", 72154,"NSM", 72156,"L", 72160,"NSM",
      72161,"L", 72193,"NSM", 72199,"L", 72201,"NSM", 72203,"L",
      72243,"NSM", 72249,"L", 72251,"NSM", 72255,"L", 72263,"NSM",
      72264,"L", 72273,"NSM", 72279,"L", 72281,"NSM", 72284,"L",
      72330,"NSM", 72343,"L", 72344,"NSM", 72346,"L", 72752,"NSM",
      72759,"L", 72760,"NSM", 72766,"L", 72850,"NSM", 72872,"L",
      72874,"NSM", 72881,"L", 72882,"NSM", 72884,"L", 72885,"NSM",
      72887,"L", 73009,"NSM", 73015,"L", 73018,"NSM", 73019,"L",
      73020,"NSM", 73022,"L", 73023,"NSM", 73030,"L", 73031,"NSM",
      73032,"L", 73104,"NSM", 73106,"L", 73109,"NSM", 73110,"L",
      73111,"NSM", 73112,"L", 73459,"NSM", 73461,"L", 73472,"NSM",
      73474,"L", 73526,"NSM", 73531,"L", 73536,"NSM", 73537,"L",
      73538,"NSM", 73539,"L", 73685,"ON", 73693,"ET", 73697,"ON", 73714,"L",
      78912,"NSM", 78913,"L", 78919,"NSM", 78934,"L", 92912,"NSM",
      92917,"L", 92976,"NSM", 92983,"L", 94031,"NSM", 94032,"L",
      94095,"NSM", 94099,"L", 94178,"ON", 94179,"L", 94180,"NSM", 94181,"L",
      113821,"NSM", 113823,"L", 113824,"BN", 113828,"L", 118528,"NSM",
      118574,"L", 118576,"NSM", 118599,"L", 119143,"NSM", 119146,"L",
      119155,"BN", 119163,"NSM", 119171,"L", 119173,"NSM", 119180,"L",
      119210,"NSM", 119214,"L", 119273,"ON", 119275,"L", 119296,"ON",
      119362,"NSM", 119365,"ON", 119366,"L", 119552,"ON", 119639,"L",
      120539,"ON", 120540,"L", 120597,"ON", 120598,"L", 120655,"ON",
      120656,"L", 120713,"ON", 120714,"L", 120771,"ON", 120772,"L",
      120782,"EN", 120832,"L", 121344,"NSM", 121399,"L", 121403,"NSM",
      121453,"L", 121461,"NSM", 121462,"L", 121476,"NSM", 121477,"L",
      121499,"NSM", 121504,"L", 121505,"NSM", 121520,"L", 122880,"NSM",
      122887,"L", 122888,"NSM", 122905,"L", 122907,"NSM", 122914,"L",
      122915,"NSM", 122917,"L", 122918,"NSM", 122923,"L", 123023,"NSM",
      123024,"L", 123184,"NSM", 123191,"L", 123566,"NSM", 123567,"L",
      123628,"NSM", 123632,"L", 123647,"ET", 123648,"L", 124140,"NSM",
      124144,"L", 124928,"R", 125136,"NSM", 125143,"R", 125252,"NSM",
      125259,"R", 126064,"AL", 126144,"R", 126208,"AL", 126288,"R",
      126464,"AL", 126704,"ON", 126706,"AL", 126720,"R", 126976,"ON",
      127020,"L", 127024,"ON", 127124,"L", 127136,"ON", 127151,"L",
      127153,"ON", 127168,"L", 127169,"ON", 127184,"L", 127185,"ON",
      127222,"L", 127232,"EN", 127243,"ON", 127248,"L", 127279,"ON",
      127280,"L", 127338,"ON", 127344,"L", 127405,"ON", 127406,"L",
      127584,"ON", 127590,"L", 127744,"ON", 128728,"L", 128732,"ON",
      128749,"L", 128752,"ON", 128765,"L", 128768,"ON", 128887,"L",
      128891,"ON", 128986,"L", 128992,"ON", 129004,"L", 129008,"ON",
      129009,"L", 129024,"ON", 129036,"L", 129040,"ON", 129096,"L",
      129104,"ON", 129114,"L", 129120,"ON", 129160,"L", 129168,"ON",
      129198,"L", 129200,"ON", 129202,"L", 129280,"ON", 129620,"L",
      129632,"ON", 129646,"L", 129648,"ON", 129661,"L", 129664,"ON",
      129673,"L", 129680,"ON", 129726,"L", 129727,"ON", 129734,"L",
      129742,"ON", 129756,"L", 129760,"ON", 129769,"L", 129776,"ON",
      129785,"L", 129792,"ON", 129939,"L", 129940,"ON", 129995,"L",
      130032,"EN", 130042,"L", 131070,"BN", 131072,"L", 196606,"BN",
      196608,"L", 262142,"BN", 262144,"L", 327678,"BN", 327680,"L",
      393214,"BN", 393216,"L", 458750,"BN", 458752,"L", 524286,"BN",
      524288,"L", 589822,"BN", 589824,"L", 655358,"BN", 655360,"L",
      720894,"BN", 720896,"L", 786430,"BN", 786432,"L", 851966,"BN",
      851968,"L", 917502,"BN", 917760,"NSM", 918000,"BN", 921600,"L",
      983038,"BN", 983040,"L", 1048574,"BN", 1048576,"L", 1114110,"BN">>

\* Joining_Type; rows of two entries: the first code point of a range,
\* its type.
JoiningType ==
    <<0,"U", 173,"T", 174,"U", 768,"T", 880,"U", 1155,"T", 1162,"U",
      1425,"T", 1470,"U", 1471,"T", 1472,"U", 1473,"T", 1475,"U", 1476,"T",
      1478,"U", 1479,"T", 1480,"U", 1552,"T", 1563,"U", 1564,"T", 1565,"U",
      1568,"D", 1569,"U", 1570,"R", 1574,"D", 1575,"R", 1576,"D", 1577,"R",
      1578,"D", 1583,"R", 1587,"D", 1600,"C", 1601,"D", 1608,"R", 1609,"D",
      1611,"T", 1632,"U", 1646,"D", 1648,"T", 1649,"R", 1652,"U", 1653,"R",
      1656,"D", 1672,"R", 1690,"D", 1728,"R", 1729,"D", 1731,"R", 1740,"D",
      1741,"R", 1742,"D", 1743,"R", 1744,"D", 1746,"R", 1748,"U", 1749,"R",
      1750,"T", 1757,"U", 1759,"T", 1765,"U", 1767,"T", 1769,"U", 1770,"T",
      1774,"R", 1776,"U", 1786,"D", 1789,"U", 1791,"D", 1792,"U", 1807,"T",
      1808,"R", 1809,"T", 1810,"D", 1813,"R", 1818,"D", 1822,"R", 1823,"D",
      1832,"R", 1833,"D", 1834,"R", 1835,"D", 1836,"R", 1837,"D", 1839,"R",
      1840,"T", 1867,"U", 1869,"R", 1870,"D", 1881,"R", 1884,"D", 1899,"R",
      1901,"D", 1905,"R", 1906,"D", 1907,"R", 1909,"D", 1912,"R", 1914,"D",
      1920,"U", 1958,"T", 1969,"U", 1994,"D", 2027,"T", 2036,"U", 2042,"C",
      2043,"U", 2045,"T", 2046,"U", 2070,"T", 2074,"U", 2075,"T", 2084,"U",
      2085,"T", 2088,"U", 2089,"T", 2094,"U", 2112,"R", 2113,"D", 2118,"R",
      2120,"D", 2121,"R", 2122,"D", 2132,"R", 2133,"D", 2134,"R", 2137,"T",
      2140,"U", 2144,"D", 2145,"U", 2146,"D", 2150,"U", 2151,"R", 2152,"D",
      2153,"R", 2155,"U", 2160,"R", 2179,"C", 2182,"D", 2183,"U", 2185,"D",
      2190,"R", 2191,"U", 2200,"T", 2208,"D", 2218,"R", 2221,"U", 2222,"R",
      2223,"D", 2225,"R", 2227,"D", 2233,"R", 2234,"D", 2249,"U", 2250,"T",
      2274,"U", 2275,"T", 2307,"U", 2362,"T", 2363,"U", 2364,"T", 2365,"U",
      2369,"T", 2377,"U", 2381,"T", 2382,"U", 2385,"T", 2392,"U", 2402,"T",
      2404,"U", 2433,"T", 2434,"U", 2492,"T", 2493,"U", 2497,"T", 2501,"U",
      2509,"T", 2510,"U", 2530,"T", 2532,"U", 2558,"T", 2559,"U", 2561,"T",
      2563,"U", 2620,"T", 2621,"U", 2625,"T", 2627,"U", 2631,"T", 2633,"U",
      2635,"T", 2638,"U", 2641,"T", 2642,"U", 2672,"T", 2674,"U", 2677,"T",
      2678,"U", 2689,"T", 2691,"U", 2748,"T", 2749,"U", 2753,"T", 2758,"U",
      2759,"T", 2761,"U", 2765,"T", 2766,"U", 2786,"T", 2788,"U", 2810,"T",
      2816,"U", 2817,"T", 2818,"U", 2876,"T", 2877,"U", 2879,"T", 2880,"U",
      2881,"T", 2885,"U", 2893,"T", 2894,"U", 2901,"T", 2903,"U", 2914,"T",
      2916,"U", 2946,"T", 2947,"U", 3008,"T", 3009,"U", 3021,"T", 3022,"U",
      3072,"T", 3073,"U", 3076,"T", 3077,"U", 3132,"T", 3133,"U", 3134,"T",
      3137,"U", 3142,"T", 3145,"U", 3146,"T", 3150,"U", 3157,"T", 3159,"U",
      3170,"T", 3172,"U", 3201,"T", 3202,"U", 3260,"T", 3261,"U", 3263,"T",
      3264,"U", 3270,"T", 3271,"U", 3276,"T", 3278,"U", 3298,"T", 3300,"U",
      3328,"T", 3330,"U", 3387,"T", 3389,"U", 3393,"T", 3397,"U", 3405,"T",
      3406,"U", 3426,"T", 3428,"U", 3457,"T", 3458,"U", 3530,"T", 3531,"U",
      3538,"T", 3541,"U", 3542,"T", 3543,"U", 3633,"T", 3634,"U", 3636,"T",
      3643,"U", 3655,"T", 3663,"U", 3761,"T", 3762,"U", 3764,"T", 3773,"U",
      3784,"T", 3791,"U", 3864,"T", 3866,"U", 3893,"T", 3894,"U", 3895,"T",
      3896,"U", 3897,"T", 3898,"U", 3953,"T", 3967,"U", 3968,"T", 3973,"U",
      3974,"T", 3976,"U", 3981,"T", 3992,"U", 3993,"T", 4029,"U", 4038,"T",
      4039,"U", 4141,"T", 4145,"U", 4146,"T", 4152,"U", 4153,"T", 4155,"U",
      4157,"T", 4159,"U", 4184,"T", 4186,"U", 4190,"T", 4193,"U", 4209,"T",
      4213,"U", 4226,"T", 4227,"U", 4229,"T", 4231,"U", 4237,"T", 4238,"U",
      4253,"T", 4254,"U", 4957,"T", 4960,"U", 5906,"T", 5909,"U", 5938,"T",
      5940,"U", 5970,"T", 5972,"U", 6002,"T", 6004,"U", 6068,"T", 6070,"U",
      6071,"T", 6078,"U", 6086,"T", 6087,"U", 6089,"T", 6100,"U", 6109,"T",
      6110,"U", 6151,"D", 6152,"U", 6154,"C", 6155,"T", 6158,"U", 6159,"T",
      6160,"U", 6176,"D", 6265,"U", 6277,"T", 6279,"D", 6313,"T", 6314,"D",
      6315,"U", 6432,"T", 6435,"U", 6439,"T", 6441,"U", 6450,"T", 6451,"U",
      6457,"T", 6460,"U", 6679,"T", 6681,"U", 6683,"T", 6684,"U", 6742,"T",
      6743,"U", 6744,"T", 6751,"U", 6752,"T", 6753,"U", 6754,"T", 6755,"U",
      6757,"T", 6765,"U", 6771,"T", 6781,"U", 6783,"T", 6784,"U", 6832,"T",
      6863,"U", 6912,"T", 6916,"U", 6964,"T", 6965,"U", 6966,"T", 6971,"U",
      6972,"T", 6973,"U", 6978,"T", 6979,"U", 7019,"T", 7028,"U", 7040,"T",
      7042,"U", 7074,"T", 7078,"U", 7080,"T", 7082,"U", 7083,"T", 7086,"U",
      7142,"T", 7143,"U", 7144,"T", 7146,"U", 7149,"T", 7150,"U", 7151,"T",
      7154,"U", 7212,"T", 7220,"U", 7222,"T", 7224,"U", 7376,"T", 7379,"U",
      7380,"T", 7393,"U", 7394,"T", 7401,"U", 7405,"T", 7406,"U", 7412,"T",
      7413,"U", 7416,"T", 7418,"U", 7616,"T", 7680,"U", 8203,"T", 8204,"U",
      8205,"C", 8206,"T", 8208,"U", 8234,"T", 8239,"U", 8288,"T", 8293,"U",
      8298,"T", 8304,"U", 8400,"T", 8433,"U", 11503,"T", 11506,"U",
      11647,"T", 11648,"U", 11744,"T", 11776,"U", 12330,"T", 12334,"U",
      12441,"T", 12443,"U", 42607,"T", 42611,"U", 42612,"T", 42622,"U",
      42654,"T", 42656,"U", 42736,"T", 42738,"U", 43010,"T", 43011,"U",
      43014,"T", 43015,"U", 43019,"T", 43020,"U", 43045,"T", 43047,"U",
      43052,"T", 43053,"U", 43072,"D", 43122,"L", 43123,"U", 43204,"T",
      43206,"U", 43232,"T", 43250,"U", 43263,"T", 43264,"U", 43302,"T",
      43310,"U", 43335,"T", 43346,"U", 43392,"T", 43395,"U", 43443,"T",
      43444,"U", 43446,"T", 43450,"U", 43452,"T", 43454,"U", 43493,"T",
      43494,"U", 43561,"T", 43567,"U", 43569,"T", 43571,"U", 43573,"T",
      43575,"U", 43587,"T", 43588,"U", 43596,"T", 43597,"U", 43644,"T",
      43645,"U", 43696,"T", 43697,"U", 43698,"T", 43701,"U", 43703,"T",
      43705,"U", 43710,"T", 43712,"U", 43713,"T", 43714,"U", 43756,"T",
      43758,"U", 43766,"T", 43767,"U", 44005,"T", 44006,"U", 44008,"T",
      44009,"U", 44013,"T", 44014,"U", 64286,"T", 64287,"U", 65024,"T",
      65040,"U", 65056,"T", 65072,"U", 65279,"T", 65280,"U", 65529,"T",
      65532,"U", 66045,"T", 66046,"U", 66272,"T", 66273,"U", 66422,"T",
      66427,"U", 68097,"T", 68100,"U", 68101,"T", 68103,"U", 68108,"T",
      68112,"U", 68152,"T", 68155,"U", 68159,"T", 68160,"U", 68288,"D",
      68293,"R", 68294,"U", 68295,"R", 68296,"U", 68297,"R", 68299,"U",
      68301,"L", 68302,"R", 68307,"D", 68311,"L", 68312,"D", 68317,"R",
      68318,"D", 68321,"R", 68322,"U", 68324,"R", 68325,"T", 68327,"U",
      68331,"D", 68335,"R", 68336,"U", 68480,"D", 68481,"R", 68482,"D",
      68483,"R", 68486,"D", 68489,"R", 68490,"D", 68492,"R", 68493,"D",
      68494,"R", 68496,"D", 68497,"R", 68498,"U", 68521,"R", 68525,"D",
      68527,"U", 68864,"L", 68865,"D", 68898,"R", 68899,"D", 68900,"T",
      68904,"U", 69291,"T", 69293,"U", 69373,"T", 69376,"U", 69424,"D",
      69427,"R", 69428,"D", 69445,"U", 69446,"T", 69457,"D", 69460,"R",
      69461,"U", 69488,"D", 69492,"R", 69494,"D", 69506,"T", 69510,"U",
      69552,"D", 69553,"U", 69554,"D", 69556,"R", 69559,"U", 69560,"D",
      69561,"R", 69563,"D", 69565,"R", 69566,"D", 69568,"U", 69569,"D",
      69570,"R", 69572,"D", 69573,"U", 69577,"R", 69578,"D", 69579,"L",
      69580,"U", 69633,"T", 69634,"U", 69688,"T", 69703,"U", 69744,"T",
      69745,"U", 69747,"T", 69749,"U", 69759,"T", 69762,"U", 69811,"T",
      69815,"U", 69817,"T", 69819,"U", 69826,"T", 69827,"U", 69888,"T",
      69891,"U", 69927,"T", 69932,"U", 69933,"T", 69941,"U", 70003,"T",
      70004,"U", 70016,"T", 70018,"U", 70070,"T", 70079,"U", 70089,"T",
      70093,"U", 70095,"T", 70096,"U", 70191,"T", 70194,"U", 70196,"T",
      70197,"U", 70198,"T", 70200,"U", 70206,"T", 70207,"U", 70209,"T",
      70210,"U", 70367,"T", 70368,"U", 70371,"T", 70379,"U", 70400,"T",
      70402,"U", 70459,"T", 70461,"U", 70464,"T", 70465,"U", 70502,"T",
      70509,"U", 70512,"T", 70517,"U", 70712,"T", 70720,"U", 70722,"T",
      70725,"U", 70726,"T", 70727,"U", 70750,"T", 70751,"U", 70835,"T",
      70841,"U", 70842,"T", 70843,"U", 70847,"T", 70849,"U", 70850,"T",
      70852,"U", 71090,"T", 71094,"U", 71100,"T", 71102,"U", 71103,"T",
      71105,"U", 71132,"T", 71134,"U", 71219,"T", 71227,"U", 71229,"T",
      71230,"U", 71231,"T", 71233,"U", 71339,"T", 71340,"U", 71341,"T",
      71342,"U", 71344,"T", 71350,"U", 71351,"T", 71352,"U", 71453,"T",
      71456,"U", 71458,"T", 71462,"U", 71463,"T", 71468,"U", 71727,"T",
      71736,"U", 71737,"T", 71739,"U", 71995,"T", 71997,"U", 71998,"T",
      71999,"U", 72003,"T", 72004,"U", 72148,"T", 72152,"U", 72154,"T",
      72156,"U", 72160,"T", 72161,"U", 72193,"T", 72203,"U", 72243,"T",
      72249,"U", 72251,"T", 72255,"U", 72263,"T", 72264,"U", 72273,"T",
      72279,"U", 72281,"T", 72284,"U", 72330,"T", 72343,"U", 72344,"T",
      72346,"U", 72752,"T", 72759,"U", 72760,"T", 72766,"U", 72767,"T",
      72768,"U", 72850,"T", 72872,"U", 72874,"T", 72881,"U", 72882,"T",
      72884,"U", 72885,"T", 72887,"U", 73009,"T", 73015,"U", 73018,"T",
      73019,"U", 73020,"T", 73022,"U", 73023,"T", 73030,"U", 73031,"T",
      73032,"U", 73104,"T", 73106,"U", 73109,"T", 73110,"U", 73111,"T",
      73112,"U", 73459,"T", 73461,"U", 73472,"T", 73474,"U", 73526,"T",
      73531,"U", 73536,"T", 73537,"U", 73538,"T", 73539,"U", 78896,"T",
      78913,"U", 78919,"T", 78934,"U", 92912,"T", 92917,"U", 92976,"T",
      92983,"U", 94031,"T", 94032,"U", 94095,"T", 94099,"U", 94180,"T",
      94181,"U", 113821,"T", 113823,"U", 113824,"T", 113828,"U", 118528,"T",
      118574,"U", 118576,"T", 118599,"U", 119143,"T", 119146,"U",
      119155,"T", 119171,"U", 119173,"T", 119180,"U", 119210,"T",
      119214,"U", 119362,"T", 119365,"U", 121344,"T", 121399,"U",
      121403,"T", 121453,"U", 121461,"T", 121462,"U", 121476,"T",
      121477,"U", 121499,"T", 121504,"U", 121505,"T", 121520,"U",
      122880,"T", 122887,"U", 122888,"T", 122905,"U", 122907,"T",
      122914,"U", 122915,"T", 122917,"U", 122918,"T", 122923,"U",
      123023,"T", 123024,"U", 123184,"T", 123191,"U", 123566,"T",
      123567,"U", 123628,"T", 123632,"U", 124140,"T", 124144,"U",
      125136,"T", 125143,"U", 125184,"D", 125252,"T", 125260,"U",
      917505,"T", 917506,"U", 917536,"T", 917632,"U", 917760,"T",
      918000,"U">>

\* A table holds its rows one after the other, each of width entries, in
\* the order of their first entries.  The row that cp falls into: the last
\* of the rows lo to hi whose first entry is not beyond cp.
row_at(table, width, k) == SubSeq(table, width * (k - 1) + 1, width * k)

RECURSIVE range_row(_, _, _, _, _)
range_row(table, width, cp, lo, hi) ==
    IF lo = hi THEN row_at(table, width, lo)
    ELSE IF table[width * ((lo + hi + 1) \div 2 - 1) + 1] <= cp
    THEN range_row(table, width, cp, (lo + hi + 1) \div 2, hi)
    ELSE range_row(table, width, cp, lo, (lo + hi + 1) \div 2 - 1)

uts46_row(cp) == range_row(Uts46Table, 3, cp, 1, Len(Uts46Table) \div 3)

canonical_combining_class(cp) ==
    IF cp < 768 THEN 0
    ELSE range_row(CombiningClass, 2, cp, 1, Len(CombiningClass) \div 2)[2]

is_mark(cp) ==
    /\ cp >= 768
    /\ range_row(GeneralCategoryMark, 2, cp, 1, Len(GeneralCategoryMark) \div 2)[2]

bidi_class(cp) == range_row(BidiClass, 2, cp, 1, Len(BidiClass) \div 2)[2]

joining_type(cp) == range_row(JoiningType, 2, cp, 1, Len(JoiningType) \div 2)[2]

\* The mapping that stands at a place of Uts46Mappings.
uts46_mapping(place) ==
    SubSeq(Uts46Mappings, place + 1, place + Uts46Mappings[place])

\* The mapping of UTS 46 on one code point, given its row of the table; a
\* disallowed one becomes U+FFFD.
uts46_mapped(cp, row) ==
    IF row[2] = "V" THEN << cp >>
    ELSE IF row[2] = "M" THEN uts46_mapping(row[3])
    ELSE IF row[2] = "I" THEN << >>
    ELSE IF row[2] = "X" THEN << 65533 >>
    ELSE NotModelled

uts46_map(cps) ==
    concat([i \in 1..Len(cps) |-> uts46_mapped(cps[i], uts46_row(cps[i]))])

\* A code point that is not valid as it is becomes U+FFFD.
uts46_validated(cp, row) ==
    IF row[2] = "V" THEN cp
    ELSE IF row[2] \in {"M", "I", "X"} THEN 65533
    ELSE NotModelled

uts46_validate(cps) ==
    [i \in 1..Len(cps) |-> uts46_validated(cps[i], uts46_row(cps[i]))]

\* Normalization Form C.  The canonical decomposition of a code point: of
\* a Hangul syllable by arithmetic, of another by the table.
hangul_decomposition(s) ==
    << 4352 + (s \div 588), 4449 + ((s % 588) \div 28) >>
    \o (IF s % 28 = 0 THEN << >> ELSE << 4519 + (s % 28) >>)

decomposition_of(cp, row) ==
    IF row[1] = cp THEN SelectSeq(Tail(row), LAMBDA c : c # 0) ELSE << cp >>

canonical_decomposition(cp) ==
    IF cp < 192 THEN << cp >>
    ELSE IF cp \in 44032..55203 THEN hangul_decomposition(cp - 44032)
    ELSE decomposition_of(cp, range_row(CanonicalDecomposition, 5, cp, 1,
                                        Len(CanonicalDecomposition) \div 5))

decompose(cps) ==
    concat([i \in 1..Len(cps) |-> canonical_decomposition(cps[i])])

\* The canonical ordering: a code point of a class above 0 moves in front
\* of the code points of a greater class that stand before it.
RECURSIVE sink(_, _, _)
sink(cps, j, class) ==
    IF class # 0 /\ j > 1 /\ canonical_combining_class(cps[j - 1]) > class
    THEN sink([cps EXCEPT ![j - 1] = cps[j], ![j] = cps[j - 1]], j - 1, class)
    ELSE cps

RECURSIVE canonical_order(_, _)
canonical_order(cps, i) ==
    IF i > Len(cps) THEN cps
    ELSE canonical_order(sink(cps, i, canonical_combining_class(cps[i])), i + 1)

\* The row of the composition table for the pair, << >> when it has none.
composition_at(k) == row_at(CanonicalComposition, 3, k)

RECURSIVE composition_row(_, _, _, _)
composition_row(first, second, lo, hi) ==
    IF lo > hi THEN << >>
    ELSE IF composition_at((lo + hi) \div 2)[1] = first
            /\ composition_at((lo + hi) \div 2)[2] = second
    THEN composition_at((lo + hi) \div 2)
    ELSE IF \/ composition_at((lo + hi) \div 2)[1] < first
            \/ /\ composition_at((lo + hi) \div 2)[1] = first
               /\ composition_at((lo + hi) \div 2)[2] < second
    THEN composition_row(first, second, (lo + hi) \div 2 + 1, hi)
    ELSE composition_row(first, second, lo, (lo + hi) \div 2 - 1)

composite_of(row) == IF row = << >> THEN << >> ELSE << row[3] >>

\* The composite of a pair: << it >>, or << >> when the pair has none.
compose_pair(first, second) ==
    IF first \in 4352..4370 /\ second \in 4449..4469
    THEN << 44032 + ((first - 4352) * 21 + (second - 4449)) * 28 >>
    ELSE IF /\ first \in 44032..55203
            /\ (first - 44032) % 28 = 0
            /\ second \in 4520..4546
    THEN << first + (second - 4519) >>
    ELSE composite_of(composition_row(first, second, 1,
                                      Len(CanonicalComposition) \div 3))

\* The canonical composition from the i-th code point on: out is what is
\* composed so far, starter the place of its last starter (0 for none),
\* last_class the class of its last code point.
RECURSIVE compose(_, _, _, _, _)
compose_with(cps, i, out, starter, last_class, class, composite) ==
    IF composite # << >>
    THEN compose(cps, i + 1, [out EXCEPT ![starter] = composite[1]],
                 starter, last_class)
    ELSE compose(cps, i + 1, Append(out, cps[i]),
                 IF class = 0 THEN Len(out) + 1 ELSE starter, class)

compose_next(cps, i, out, starter, last_class, class) ==
    compose_with(cps, i, out, starter, last_class, class,
                 IF /\ starter > 0
                    /\ \/ last_class < class
                       \/ last_class = 0 /\ Len(out) = starter
                 THEN compose_pair(out[starter], cps[i])
                 ELSE << >>)

compose(cps, i, out, starter, last_class) ==
    IF i > Len(cps) THEN out
    ELSE compose_next(cps, i, out, starter, last_class,
                      canonical_combining_class(cps[i]))

nfc(cps) == compose(canonical_order(decompose(cps), 2), 1, << >>, 0, 0)

\* idna punycode.rs adapt
punycode_adapt(delta, num_points, first_time) ==
    LET d0 == IF first_time THEN delta \div 700 ELSE delta \div 2
        d1 == d0 + (d0 \div num_points)
        RECURSIVE Shrink(_, _)
        Shrink(d, k) == IF d > 455 THEN Shrink(d \div 35, k + 36)
                        ELSE k + ((36 * d) \div (d + 38))
    IN  Shrink(d1, 0)

\* punycode.rs value_to_digit: the byte of a digit, "a" to "z" and "0" to
\* "9".
punycode_digit(d) == IF d < 26 THEN 97 + d ELSE 22 + d

\* punycode.rs encode_into: Punycode (RFC 3492) of a label given as code
\* points, in bytes.
punycode_encode(cps) ==
    LET n0 == Len(cps)
        basic == SelectSeq(cps, LAMBDA c : c < 128)
        b == Len(basic)
        RECURSIVE VarInt(_, _, _)
        VarInt(q, k, bias) ==
            LET t == IF k <= bias THEN 1 ELSE IF k >= bias + 26 THEN 26 ELSE k - bias
            IN  IF q < t THEN << punycode_digit(q) >>
                ELSE << punycode_digit(t + ((q - t) % (36 - t))) >>
                     \o VarInt((q - t) \div (36 - t), k + 36, bias)
        \* one pass over the label for the code point st.n
        RECURSIVE Pass(_, _)
        Pass(st, i) ==
            IF i > n0 THEN st
            ELSE IF cps[i] < st.n THEN Pass([st EXCEPT !.delta = @ + 1], i + 1)
            ELSE IF cps[i] = st.n
            THEN Pass([st EXCEPT !.out = @ \o VarInt(st.delta, 36, st.bias),
                                 !.bias = punycode_adapt(st.delta, st.h + 1, st.h = b),
                                 !.delta = 0,
                                 !.h = @ + 1], i + 1)
            ELSE Pass(st, i + 1)
        RECURSIVE Loop(_)
        Loop(st) ==
            IF st.h >= n0 THEN st.out
            ELSE LET rest == {cps[i] : i \in {j \in 1..n0 : cps[j] >= st.n}}
                     m == CHOOSE x \in rest : \A y \in rest : x <= y
                     st1 == [st EXCEPT !.delta = @ + (m - st.n) * (st.h + 1), !.n = m]
                     st2 == Pass(st1, 1)
                 IN  Loop([st2 EXCEPT !.delta = @ + 1, !.n = @ + 1])
    IN  Loop([n |-> 128, delta |-> 0, bias |-> 72, h |-> b,
              out |-> basic \o (IF b > 0 THEN << 45 >> ELSE << >>)])

\* The forbidden host code points of the URL standard.
ForbiddenHost ==
    {"NUL", "\t", "\n", "\r", " ", "#", "/", ":", "<", ">", "?", "@", "[",
     "\\", "]", "^", "|"}

\* idna AsciiDenyList::URL: the forbidden domain code points, which are the
\* C0 controls, the space, "#/:<>?@[\]^|", "%" and U+007F.
url_deny(b) ==
    b <= 32 \/ b = 127 \/ b \in {35, 37, 47, 58, 60, 62, 63, 64, 91, 92, 93, 94, 124}

RECURSIVE join_labels(_)
join_labels(ls) ==
    IF Len(ls) = 1 THEN ls[1] ELSE ls[1] \o << "." >> \o join_labels(Tail(ls))

\* punycode.rs PunycodeCodeUnit::digit: -1 for a byte that is no digit of
\* Punycode.
punycode_value(b) ==
    IF b \in 48..57 THEN b - 22
    ELSE IF b \in 65..90 THEN b - 65
    ELSE IF b \in 97..122 THEN b - 97
    ELSE -1

\* The inner loop of Decoder::decode, one generalized variable-length
\* integer read from position j: << i, the position after it >>, or << >>
\* when a byte is no digit, the text ends inside the integer, the weight
\* overflows a u32, or i passes limit (the greatest i that still gives a
\* code point; the code fails there on the overflow or on char::from_u32).
\* A weight beyond limit is kept as limit + 1.
RECURSIVE punycode_delta(_, _, _, _, _, _, _)
punycode_delta(digits, j, i, weight, k, bias, limit) ==
    IF j > Len(digits) THEN << >>
    ELSE LET digit == punycode_value(digits[j])
             t == IF k <= bias THEN 1 ELSE IF k >= bias + 26 THEN 26 ELSE k - bias
         IN  IF digit < 0 THEN << >>
             ELSE IF digit > 0 /\ weight > (limit - i) \div digit THEN << >>
             ELSE IF digit < t THEN << i + digit * weight, j + 1 >>
             ELSE IF weight > 2 * (2147483647 \div (36 - t))
                              + (2 * (2147483647 % (36 - t)) + 1) \div (36 - t)
             THEN << >>
             ELSE punycode_delta(digits, j + 1, i + digit * weight,
                                 IF weight > limit \div (36 - t) THEN limit + 1
                                 ELSE weight * (36 - t),
                                 k + 36, bias, limit)

\* The outer loop of Decoder::decode from position j of the digits, with
\* the label decoded so far: << the label >>, or << >> when it fails.  A
\* decoded code point goes to the place i of the label.
RECURSIVE punycode_insertions(_, _, _, _, _, _)
RECURSIVE punycode_insert(_, _, _, _, _, _)
punycode_insertions(digits, j, i, bias, code_point, decoded) ==
    IF j > Len(digits) THEN << decoded >>
    ELSE punycode_insert(digits,
                         punycode_delta(digits, j, i, 1, 36, bias,
                                        (1114111 - code_point) * (Len(decoded) + 1)
                                            + Len(decoded)),
                         i, bias, code_point, decoded)

punycode_insert(digits, delta, previous_i, bias, code_point, decoded) ==
    IF delta = << >> THEN << >>
    ELSE IF code_point + (delta[1] \div (Len(decoded) + 1)) \in 55296..57343 THEN << >>
    ELSE punycode_insertions(digits, delta[2], (delta[1] % (Len(decoded) + 1)) + 1,
                             punycode_adapt(delta[1] - previous_i, Len(decoded) + 1,
                                            previous_i = 0),
                             code_point + (delta[1] \div (Len(decoded) + 1)),
                             SubSeq(decoded, 1, delta[1] % (Len(decoded) + 1))
                                 \o << code_point + (delta[1] \div (Len(decoded) + 1)) >>
                                 \o SubSeq(decoded, (delta[1] % (Len(decoded) + 1)) + 1,
                                           Len(decoded)))

\* The position of the last "-" of the bytes, 0 when they have none.
last_delimiter(bytes) ==
    IF \E i \in 1..Len(bytes) : bytes[i] = 45
    THEN CHOOSE i \in 1..Len(bytes) :
             bytes[i] = 45 /\ \A j \in (i + 1)..Len(bytes) : bytes[j] # 45
    ELSE 0

ascii_lower(b) == IF b \in 65..90 THEN b + 32 ELSE b

lower_bytes(bytes) == [i \in 1..Len(bytes) |-> ascii_lower(bytes[i])]

\* punycode.rs Decoder::decode of the bytes behind "xn--": the basic
\* code points stand before the last "-" and come out in lower case; a "-"
\* in the first place is left to the digits, where it fails.
punycode_decode(bytes) ==
    punycode_insertions(IF last_delimiter(bytes) > 1
                        THEN SubSeq(bytes, last_delimiter(bytes) + 1, Len(bytes))
                        ELSE bytes,
                        1, 0, 72, 128,
                        IF last_delimiter(bytes) > 1
                        THEN lower_bytes(SubSeq(bytes, 1, last_delimiter(bytes) - 1))
                        ELSE << >>)

\* uts46.rs after_punycode_decode: the decoded label has to be what the
\* mapping and the normalization leave alone, without a code point of the
\* deny list or a ".".
normalized_as(label, normalized) ==
    /\ \A i \in 1..Len(normalized) :
           /\ normalized[i] # 65533
           /\ ~(normalized[i] < 128 /\ (url_deny(normalized[i]) \/ normalized[i] = 46))
    /\ \A i \in 1..Len(normalized) : i <= Len(label) => normalized[i] = label[i]

after_punycode_decode(label) == normalized_as(label, nfc(uts46_validate(label)))

\* uts46.rs check_label's rule for U+200C and U+200D (ContextJ): after a
\* virama, or U+200C between a left- or dual-joining code point before it
\* and a right- or dual-joining one behind it, the transparent ones
\* skipped.
RECURSIVE joins_before(_, _)
joins_before(label, i) ==
    /\ i >= 1
    /\ \/ joining_type(label[i]) \in {"L", "D"}
       \/ joining_type(label[i]) = "T" /\ joins_before(label, i - 1)

RECURSIVE joins_after(_, _)
joins_after(label, i) ==
    /\ i <= Len(label)
    /\ \/ joining_type(label[i]) \in {"R", "D"}
       \/ joining_type(label[i]) = "T" /\ joins_after(label, i + 1)

contextj(label, i) ==
    \/ label[i] \notin {8204, 8205}
    \/ /\ i > 1
       /\ \/ canonical_combining_class(label[i - 1]) = 9
          \/ /\ label[i] = 8204
             /\ joins_before(label, i - 1)
             /\ joins_after(label, i + 1)

\* uts46.rs check_label: a label does not start with a mark.
check_label(label) ==
    /\ Len(label) = 0 \/ ~is_mark(label[1])
    /\ \A i \in 1..Len(label) : contextj(label, i)

\* uts46.rs is_bidi: the domain has a code point of a right-to-left class.
is_bidi(labels) ==
    \E k \in 1..Len(labels) : \E i \in 1..Len(labels[k]) :
        /\ labels[k][i] >= 1424
        /\ labels[k][i] \notin 2304..64284
        /\ bidi_class(labels[k][i]) \in {"R", "AL", "AN"}

\* The length of a label without the nonspacing marks at its end, the
\* first code point kept.
RECURSIVE without_trailing_nsm(_, _)
without_trailing_nsm(label, n) ==
    IF n > 1 /\ bidi_class(label[n]) = "NSM"
    THEN without_trailing_nsm(label, n - 1) ELSE n

\* uts46.rs check_bidi, the Bidi Rule of RFC 5893 on one label: first the
\* class of its first code point, n its length without the trailing marks.
bidi_rule(label, first, n) ==
    /\ first \in {"L", "R", "AL"}
    /\ \/ n = 1
       \/ /\ bidi_class(label[n]) \in
                 (IF first = "L" THEN {"L", "EN"} ELSE {"R", "AL", "EN", "AN"})
          /\ \A i \in 2..(n - 1) :
                 bidi_class(label[i]) \in
                     {"EN", "ES", "CS", "ET", "ON", "BN", "NSM"}
                     \cup (IF first = "L" THEN {"L"} ELSE {"R", "AL", "AN"})
          /\ first # "L" =>
                 ~ /\ \E i \in 2..n : bidi_class(label[i]) = "EN"
                   /\ \E i \in 2..n : bidi_class(label[i]) = "AN"

check_bidi(label) ==
    \/ Len(label) = 0
    \/ bidi_rule(label, bidi_class(label[1]), without_trailing_nsm(label, Len(label)))

\* One label after uts46.rs process_innermost: << >> when it is invalid,
\* else << its code points, its ASCII form >>.
XnPrefix == << 120, 110, 45, 45 >>

has_punycode_prefix(label) ==
    Len(label) >= 4 /\ lower_bytes(SubSeq(label, 1, 4)) = XnPrefix

processed(unicode, ascii) ==
    IF unicode = << >> THEN << >>
    ELSE << [unicode |-> unicode[1], ascii |-> ascii] >>

\* A decoded label: << it >> when it is valid, else << >>.
decoded_label(decoded) ==
    IF decoded = << >> THEN << >>
    ELSE IF ~after_punycode_decode(decoded[1]) THEN << >>
    ELSE IF ~check_label(decoded[1]) THEN << >>
    ELSE decoded

\* A label with the prefix "xn--": it must not end in "-", the rest is at
\* most PUNYCODE_DECODE_MAX_INPUT_LENGTH (2000) long and decodes to a
\* valid label.
punycode_label(label) ==
    IF label[Len(label)] = 45 \/ Len(label) - 4 > 2000 THEN << >>
    ELSE decoded_label(punycode_decode(SubSeq(label, 5, Len(label))))

\* A label of ASCII: one in Punycode is checked and comes out as it is
\* written, another must keep off the deny list; both in lower case.
ascii_label(label) ==
    IF has_punycode_prefix(label)
    THEN processed(punycode_label(label), lower_bytes(label))
    ELSE IF \E i \in 1..Len(label) : url_deny(label[i]) THEN << >>
    ELSE processed(<< lower_bytes(label) >>, lower_bytes(label))

\* The ASCII form of a label: the label, or "xn--" and its Punycode.
to_ascii_form(unicode) ==
    IF unicode = << >> THEN << >>
    ELSE processed(unicode,
                   IF \A i \in 1..Len(unicode[1]) : unicode[1][i] < 128
                   THEN unicode[1]
                   ELSE XnPrefix \o punycode_encode(unicode[1]))

\* A label between the dots of what a label beyond ASCII is mapped to.
mapped_label(label) ==
    IF \E i \in 1..Len(label) : label[i] = 65533 THEN << >>
    ELSE IF Len(label) >= 4 /\ SubSeq(label, 1, 4) = XnPrefix
    THEN IF \E i \in 5..Len(label) : label[i] >= 128 THEN << >>
         ELSE to_ascii_form(punycode_label(label))
    ELSE IF ~check_label(label) THEN << >>
    ELSE to_ascii_form(<< label >>)

\* The mapped and normalized code points, those of the deny list as U+FFFD.
deny_mapped(cps) ==
    [i \in 1..Len(cps) |-> IF cps[i] < 128 /\ url_deny(cps[i]) THEN 65533 ELSE cps[i]]

mapped_labels(labels) == [i \in 1..Len(labels) |-> mapped_label(labels[i])]

\* uts46.rs process_innermost on the bytes between two dots: the labels
\* they give, each << >> or << a label >>.  A label of ASCII gives one; a
\* label beyond ASCII is mapped and normalized first and may fall into
\* several at the dots the mapping brings.
process_innermost(label) ==
    IF \A i \in 1..Len(label) : label[i] < 128 THEN << ascii_label(label) >>
    ELSE mapped_labels(split(deny_mapped(nfc(uts46_map(utf8_chars(label, 1)))), 46))

\* uts46.rs process: the labels of the domain; the Bidi Rule holds for
\* each if one of them has a right-to-left code point.
processed_domain(labels) ==
    IF \E i \in 1..Len(labels) : labels[i] = << >> THEN << >>
    ELSE IF /\ is_bidi([i \in 1..Len(labels) |-> labels[i][1].unicode])
            /\ \E i \in 1..Len(labels) : ~check_bidi(labels[i][1].unicode)
    THEN << >>
    ELSE << join_labels([i \in 1..Len(labels) |-> ascii_text(labels[i][1].ascii)]) >>

process(labels) ==
    processed_domain(concat([i \in 1..Len(labels) |-> process_innermost(labels[i])]))

\* idna::domain_to_ascii_from_cow(domain, AsciiDenyList::URL) on the bytes
\* of a domain: << the domain in ASCII >>, or << >> when it fails.
domain_to_ascii(domain) == process(split(domain, 46))

\* host.rs parse_ipv4number: << >> when the part is not a number, else the
\* number as four octets, or "overflow" when it does not fit in a u32.
parse_ipv4number(part) ==
    LET hex == Len(part) >= 2 /\ part[1] = "0" /\ part[2] \in {"x", "X"}
        oct == ~hex /\ Len(part) >= 2 /\ part[1] = "0"
        r == IF hex THEN 16 ELSE IF oct THEN 8 ELSE 10
        digits == IF hex THEN SubSeq(part, 3, Len(part))
                  ELSE IF oct THEN Tail(part) ELSE part
        valid == \A i \in 1..Len(digits) :
                     /\ digits[i] \in HexDigits
                     /\ HexVal(digits[i]) < r
        \* acc * r + d on four octets, the most significant first
        MulAdd(acc, d) ==
            IF acc = "overflow" THEN acc
            ELSE LET t4 == acc[4] * r + d
                     t3 == acc[3] * r + (t4 \div 256)
                     t2 == acc[2] * r + (t3 \div 256)
                     t1 == acc[1] * r + (t2 \div 256)
                 IN  IF t1 > 255 THEN "overflow"
                     ELSE << t1, t2 % 256, t3 % 256, t4 % 256 >>
        RECURSIVE Value(_, _)
        Value(acc, i) ==
            IF i > Len(digits) THEN acc
            ELSE Value(MulAdd(acc, HexVal(digits[i])), i + 1)
    IN  IF Len(part) = 0 THEN << >>
        ELSE IF Len(digits) = 0 THEN << << 0, 0, 0, 0 >> >>
        ELSE IF ~valid THEN << >>
        ELSE << Value(<< 0, 0, 0, 0 >>, 1) >>

\* host.rs ends_in_a_number
ends_in_a_number(domain) ==
    LET parts == split(domain, ".")
        n == Len(parts)
        last == IF Len(parts[n]) = 0 /\ n > 1 THEN parts[n - 1] ELSE parts[n]
    IN  /\ ~(Len(parts[n]) = 0 /\ n = 1)
        /\ \/ Len(last) > 0 /\ \A i \in 1..Len(last) : last[i] \in AsciiDigit
           \/ parse_ipv4number(last) # << >>

\* The decimal digits of a number.
RECURSIVE decimal(_)
decimal(n) ==
    IF n < 10 THEN << HexUpper[n + 1] >>
    ELSE decimal(n \div 10) \o << HexUpper[(n % 10) + 1] >>

\* host.rs parse_ipv4addr and the dotted form Ipv4Addr is written in;
\* << >> when the address is invalid.  The last number fills the octets
\* the numbers in front of it leave; each of those is one octet.
ipv4_from_numbers(numbers) ==
    LET n == Len(numbers) IN
    IF n > 4 THEN << >>
    ELSE IF \E i \in 1..n : numbers[i] = << >> \/ numbers[i] = << "overflow" >>
    THEN << >>
    ELSE IF \E i \in 1..(n - 1) : numbers[n][1][i] # 0 THEN << >>
    ELSE IF \E i \in 1..(n - 1) : \E j \in 1..3 : numbers[i][1][j] # 0 THEN << >>
    ELSE << join_labels([i \in 1..4 |->
                decimal(IF i < n THEN numbers[i][1][4] ELSE numbers[n][1][i])]) >>

drop_last_empty(parts) ==
    IF Len(parts[Len(parts)]) = 0 THEN SubSeq(parts, 1, Len(parts) - 1) ELSE parts

parse_ipv4numbers(parts) == [i \in 1..Len(parts) |-> parse_ipv4number(parts[i])]

parse_ipv4addr(domain) ==
    ipv4_from_numbers(parse_ipv4numbers(drop_last_empty(split(domain, "."))))

\* host.rs parse_ipv6addr: the eight pieces of the address, << >> when the
\* text is not an address.
parse_ipv6addr(s) ==
    LET len == Len(s)
        Zero == [i \in 1..8 |-> 0]
        \* pieces[cp .. pp - 1] move to the end, zeros fill the gap
        Finish(pieces, pp, cp) ==
            IF cp = 0 THEN (IF pp # 8 THEN << >> ELSE << pieces >>)
            ELSE LET swaps == pp - cp
                 IN  << [i \in 1..8 |->
                            IF i <= cp THEN pieces[i]
                            ELSE IF i <= 8 - swaps THEN 0
                            ELSE pieces[i - (8 - swaps) + cp]] >>
        \* the end of the run of decimal digits that starts at i
        RECURSIVE DigitsEnd(_)
        DigitsEnd(i) == IF i <= len /\ s[i] \in AsciiDigit THEN DigitsEnd(i + 1) ELSE i
        RECURSIVE V4(_, _, _, _, _)
        V4(i, pp, cp, pieces, seen) ==
            IF i > len THEN (IF seen # 4 THEN << >> ELSE Finish(pieces, pp, cp))
            ELSE IF seen > 0 /\ ~(seen < 4 /\ s[i] = ".") THEN << >>
            ELSE LET i1 == IF seen > 0 THEN i + 1 ELSE i
                     e == DigitsEnd(i1)
                     run == SubSeq(s, i1, e - 1)
                     v == IF Len(run) = 1 THEN HexVal(run[1])
                          ELSE IF Len(run) = 2 THEN 10 * HexVal(run[1]) + HexVal(run[2])
                          ELSE 100 * HexVal(run[1]) + 10 * HexVal(run[2]) + HexVal(run[3])
                 IN  IF Len(run) = 0 \/ Len(run) > 3 THEN << >>
                     ELSE IF Len(run) > 1 /\ run[1] = "0" THEN << >>
                     ELSE IF v > 255 THEN << >>
                     ELSE V4(e, IF seen + 1 \in {2, 4} THEN pp + 1 ELSE pp, cp,
                             [pieces EXCEPT ![pp + 1] = @ * 256 + v], seen + 1)
        \* the end of the run of at most four hex digits that starts at i
        RECURSIVE HexEnd(_, _)
        HexEnd(i, end) == IF i < end /\ s[i] \in HexDigits THEN HexEnd(i + 1, end) ELSE i
        RECURSIVE HexValue(_, _, _)
        HexValue(i, j, acc) ==
            IF i >= j THEN acc ELSE HexValue(i + 1, j, acc * 16 + HexVal(s[i]))
        RECURSIVE Pieces(_, _, _, _)
        Pieces(i, pp, cp, pieces) ==
            IF i > len THEN Finish(pieces, pp, cp)
            ELSE IF pp = 8 THEN << >>
            ELSE IF s[i] = ":"
            THEN IF cp # 0 THEN << >> ELSE Pieces(i + 1, pp + 1, pp + 1, pieces)
            ELSE LET end == IF len + 1 < i + 4 THEN len + 1 ELSE i + 4
                     j == HexEnd(i, end)
                     value == HexValue(i, j, 0)
                     stored == [pieces EXCEPT ![pp + 1] = value]
                 IN  IF j > len THEN Pieces(j, pp + 1, cp, stored)
                     ELSE IF s[j] = "."
                     THEN IF j = i \/ pp > 6 THEN << >>
                          ELSE V4(i, pp, cp, pieces, 0)
                     ELSE IF s[j] = ":"
                     THEN IF j + 1 > len THEN << >>
                          ELSE Pieces(j + 1, pp + 1, cp, stored)
                     ELSE << >>
    IN  IF len >= 1 /\ s[1] = ":"
        THEN IF len < 2 \/ s[2] # ":" THEN << >> ELSE Pieces(3, 1, 1, Zero)
        ELSE Pieces(1, 0, 0, Zero)

\* host.rs write_ipv6: lower-case hex pieces, "::" for the first longest run
\* of two or more zero pieces.
RECURSIVE hex(_)
hex(n) ==
    IF n < 16 THEN << HexLower[n + 1] >>
    ELSE hex(n \div 16) \o << HexLower[(n % 16) + 1] >>

RECURSIVE zero_run(_, _)
zero_run(segments, i) ==
    IF i <= 8 /\ segments[i] = 0 THEN 1 + zero_run(segments, i + 1) ELSE 0

\* The first piece of the run to compress, 0 when there is none.
longest_zero_sequence(segments) ==
    LET longest == {i \in 1..8 :
                       /\ zero_run(segments, i) >= 2
                       /\ i = 1 \/ segments[i - 1] # 0
                       /\ \A j \in 1..8 :
                              \/ zero_run(segments, j) < zero_run(segments, i)
                              \/ zero_run(segments, j) = zero_run(segments, i) /\ j >= i}
    IN  IF longest = {} THEN 0 ELSE CHOOSE i \in longest : TRUE

RECURSIVE write_from(_, _, _)
write_from(segments, i, compress_start) ==
    IF i > 8 THEN << >>
    ELSE IF i = compress_start
    THEN << ":" >> \o (IF i = 1 THEN << ":" >> ELSE << >>)
         \o write_from(segments, i + zero_run(segments, i), 0)
    ELSE hex(segments[i]) \o (IF i < 8 THEN << ":" >> ELSE << >>)
         \o write_from(segments, i + 1, compress_start)

write_ipv6(segments) == write_from(segments, 1, longest_zero_sequence(segments))

\* The host in square brackets: an IPv6 address.
bracketed(address) ==
    IF address = << >> THEN << >>
    ELSE << << "[" >> \o write_ipv6(address[1]) \o << "]" >> >>

parse_bracketed(text) ==
    IF text[Len(text)] # "]" THEN << >>
    ELSE bracketed(parse_ipv6addr(SubSeq(text, 2, Len(text) - 1)))

\* host.rs Host::parse, the host of a special scheme, as it is written in
\* the URL; << >> when it is invalid.  The domain is the percent-decoded
\* bytes of the text.
host_of_domain(domain) ==
    IF domain = << >> THEN << >>
    ELSE IF Len(domain[1]) = 0 THEN << >>
    ELSE IF ends_in_a_number(domain[1]) THEN parse_ipv4addr(domain[1])
    ELSE domain

Host_parse(text) ==
    IF Len(text) > 0 /\ text[1] = "[" THEN parse_bracketed(text)
    ELSE host_of_domain(domain_to_ascii(percent_decode(as_bytes(text))))

\* host.rs Host::parse_opaque, the host of any other scheme: the controls
\* and what lies beyond ASCII are percent-encoded.
RECURSIVE encode_controls(_)
encode_controls(s) ==
    IF Len(s) = 0 THEN << >>
    ELSE (IF s[1] \in {AsciiPrintable[i] : i \in 1..95}
          THEN << s[1] >> ELSE percent_encode_char(s[1]))
         \o encode_controls(Tail(s))

\* A host of one byte that would be encoded stays as it is: the encoder
\* then yields the one borrowed chunk "%XX", and a borrowed result makes
\* parse_opaque return its input.
Host_parse_opaque(text) ==
    IF Len(text) > 0 /\ text[1] = "[" THEN parse_bracketed(text)
    ELSE IF \E i \in 1..Len(text) : text[i] \in ForbiddenHost THEN << >>
    ELSE IF Len(text) = 1 /\ CodePoint(text[1]) < 128 THEN << text >>
    ELSE << encode_controls(text) >>

\* parser.rs parse_port: digits up to 65535; a "\" ends them.
port_ok(p) ==
    LET RECURSIVE Scan(_, _)
        Scan(i, port) ==
            IF i > Len(p) THEN TRUE
            ELSE IF p[i] \in AsciiDigit
            THEN LET next == port * 10 + HexVal(p[i])
                 IN  IF next > 65535 THEN FALSE ELSE Scan(i + 1, next)
            ELSE p[i] = "\\"
    IN  Scan(1, 0)

\* parser.rs after_double_slash: the authority is the user information up
\* to its last "@", the host up to a ":" outside square brackets, and the
\* port.  << >> when there is no host or the URL is invalid.
RECURSIVE host_end(_, _, _)
host_end(hostport, i, inside) ==
    IF i > Len(hostport) THEN i
    ELSE IF hostport[i] = ":" /\ ~inside THEN i
    ELSE host_end(hostport, i + 1,
                  IF hostport[i] = "[" THEN TRUE
                  ELSE IF hostport[i] = "]" THEN FALSE ELSE inside)

after_userinfo(authority) ==
    LET ats == {i \in 1..Len(authority) : authority[i] = "@"}
    IN  IF ats = {} THEN authority
        ELSE SubSeq(authority, 1 + (CHOOSE i \in ats : \A j \in ats : j <= i),
                    Len(authority))

host_and_port(hostport, e, special) ==
    IF e = 1 THEN << >>
    ELSE IF ~port_ok(SubSeq(hostport, e + 1, Len(hostport))) THEN << >>
    ELSE IF special THEN Host_parse(SubSeq(hostport, 1, e - 1))
    ELSE Host_parse_opaque(SubSeq(hostport, 1, e - 1))

parse_host_and_port(hostport, special) ==
    host_and_port(hostport, host_end(hostport, 1, FALSE), special)

authority_host(s, special) ==
    parse_host_and_port(
        after_userinfo(TakeUntil(s, IF special THEN {"/", "\\", "?", "#"}
                                    ELSE {"/", "?", "#"})),
        special)

\* parser.rs is_windows_drive_letter, is_normalized_windows_drive_letter
\* and starts_with_windows_drive_letter.
is_windows_drive_letter(segment) ==
    /\ Len(segment) = 2
    /\ segment[1] \in AsciiAlpha
    /\ segment[2] \in {":", "|"}

is_normalized_windows_drive_letter(segment) ==
    is_windows_drive_letter(segment) /\ segment[2] = ":"

starts_with_windows_drive_letter(s) ==
    /\ Len(s) >= 2
    /\ s[1] \in AsciiAlpha
    /\ s[2] \in {":", "|"}
    /\ (Len(s) = 2 \/ s[3] \in {"/", "\\", "?", "#"})

\* The position of the last "/" of a path, 0 when it has none.
last_slash(path) ==
    IF \E i \in 1..Len(path) : path[i] = "/"
    THEN CHOOSE i \in 1..Len(path) :
             path[i] = "/" /\ \A j \in (i + 1)..Len(path) : path[j] # "/"
    ELSE 0

\* parser.rs last_slash_can_be_removed, pop_path and shorten_path on the
\* path of a file URL (the text from path_start on).
last_slash_can_be_removed(path) ==
    /\ last_slash(SubSeq(path, 1, Len(path) - 1)) >= 1
    /\ ~ starts_with_windows_drive_letter(
             SubSeq(path, last_slash(SubSeq(path, 1, Len(path) - 1)) + 1, Len(path)))

pop_path(path) ==
    IF is_normalized_windows_drive_letter(SubSeq(path, last_slash(path) + 1, Len(path)))
    THEN path
    ELSE SubSeq(path, 1, last_slash(path))

shorten_path(path) ==
    IF Len(path) = 0 \/ is_normalized_windows_drive_letter(path) THEN path
    ELSE pop_path(path)

ends_with_slash(path) == Len(path) > 0 /\ path[Len(path)] = "/"

with_slash(path) == IF ends_with_slash(path) THEN path ELSE path \o << "/" >>

without_removable_slash(path) ==
    IF ends_with_slash(path) /\ last_slash_can_be_removed(path)
    THEN SubSeq(path, 1, Len(path) - 1)
    ELSE path

DoubleDotSegments ==
    {<<".", ".">>, <<"%","2","e","%","2","e">>, <<"%","2","e",".">>, <<".","%","2","e">>}

SingleDotSegments == {<<".">>, <<"%","2","e">>}

\* parser.rs parse_path, what a segment that ends in a slash leaves of the
\* path: segment_start characters stand before the segment, written in
\* lower case here.
path_after_segment(path, segment_start, segment) ==
    IF segment \in DoubleDotSegments
    THEN with_slash(shorten_path(without_removable_slash(SubSeq(path, 1, segment_start))))
    ELSE IF segment \in SingleDotSegments
    THEN with_slash(SubSeq(path, 1, segment_start))
    ELSE path \o << "/" >>

\* parser.rs parse_path on a file URL with a host: TRUE when it sets
\* has_host to false, which it does for a Windows drive letter met while
\* the path is empty.  A character the code percent-encodes stands for
\* itself; it is in no segment the code looks for.
RECURSIVE parse_path(_, _, _)
next_segment(path, rest) == parse_path(path, Len(path), rest)

parse_path(path, segment_start, rest) ==
    IF Len(rest) = 0 \/ rest[1] \in {"?", "#"}
    THEN /\ segment_start = 1
         /\ is_windows_drive_letter(SubSeq(path, segment_start + 1, Len(path)))
    ELSE IF rest[1] \in {"/", "\\"}
    THEN \/ /\ segment_start = 1
            /\ is_windows_drive_letter(SubSeq(path, segment_start + 1, Len(path)))
         \/ next_segment(path_after_segment(path, segment_start,
                             to_lowercase(SubSeq(path, segment_start + 1, Len(path)))),
                         Tail(rest))
    ELSE parse_path(path \o << rest[1] >>, segment_start, Tail(rest))

\* parser.rs parse_path_start of a special URL: the slash the path starts
\* with is written before parse_path reads on.
parse_path_start(remaining) ==
    parse_path(<< "/" >>, 1,
               IF Len(remaining) > 0 /\ remaining[1] \in {"/", "\\"}
               THEN Tail(remaining) ELSE remaining)

\* parser.rs parse_file: a host only after two slashes; a drive letter and
\* "localhost" are no host, and a host in front of a path that starts with
\* a drive letter is removed.
no_localhost(host) ==
    IF host = << >> THEN << >>
    ELSE IF host[1] = <<"l","o","c","a","l","h","o","s","t">> THEN << >>
    ELSE host

host_before_path(host, remaining) ==
    IF host = << >> THEN << >>
    ELSE IF parse_path_start(remaining) THEN << >>
    ELSE host

parse_file_host(host_str, remaining) ==
    IF Len(host_str) = 0 THEN << >>
    ELSE IF is_windows_drive_letter(host_str) THEN << >>
    ELSE host_before_path(no_localhost(Host_parse(host_str)), remaining)

file_host_at(after, n) ==
    parse_file_host(SubSeq(after, 1, n), SubSeq(after, n + 1, Len(after)))

file_host(rest) ==
    IF Len(rest) >= 2 /\ rest[1] \in {"/", "\\"} /\ rest[2] \in {"/", "\\"}
    THEN file_host_at(SubSeq(rest, 3, Len(rest)),
                      Len(TakeUntil(SubSeq(rest, 3, Len(rest)), {"/", "\\", "?", "#"})))
    ELSE << >>

SpecialSchemes == {<<"h","t","t","p">>, <<"h","t","t","p","s">>, <<"w","s">>, <<"w","s","s">>, <<"f","t","p">>}

\* Url::parse without a base URL, then Url::host_str: << >> for None and
\* for a URL that does not parse.
RECURSIVE strip_start(_)
strip_start(s) ==
    IF Len(s) > 0 /\ CodePoint(s[1]) <= 32 THEN strip_start(Tail(s)) ELSE s

RECURSIVE strip_end(_)
strip_end(s) ==
    IF Len(s) > 0 /\ CodePoint(s[Len(s)]) <= 32
    THEN strip_end(SubSeq(s, 1, Len(s) - 1))
    ELSE s

RECURSIVE skip_slashes(_)
skip_slashes(s) ==
    IF Len(s) > 0 /\ s[1] \in {"/", "\\"} THEN skip_slashes(Tail(s)) ELSE s

\* The leading and trailing C0 controls and spaces go, and every tab and
\* newline.
url_input(url) ==
    SelectSeq(strip_end(strip_start(url)), LAMBDA c : c \notin {"\t", "\n", "\r"})

\* The place of the ":" that ends a scheme, 0 when the text has no scheme.
scheme_end(chars) ==
    LET colons == {i \in 1..Len(chars) : chars[i] = ":"}
    IN  IF colons = {} THEN 0
        ELSE LET k == CHOOSE i \in colons : \A j \in colons : i <= j
             IN  IF /\ k > 1
                    /\ chars[1] \in AsciiAlpha
                    /\ \A j \in 2..(k - 1) :
                           chars[j] \in AsciiAlpha \cup AsciiDigit \cup {"+", "-", "."}
                 THEN k ELSE 0

host_after_scheme(scheme, rest) ==
    IF scheme \in SpecialSchemes THEN authority_host(skip_slashes(rest), TRUE)
    ELSE IF scheme = <<"f","i","l","e">> THEN file_host(rest)
    ELSE IF Len(rest) >= 2 /\ rest[1] = "/" /\ rest[2] = "/"
    THEN authority_host(SubSeq(rest, 3, Len(rest)), FALSE)
    ELSE << >>

parse_with_scheme(chars, k) ==
    IF k = 0 THEN << >>
    ELSE host_after_scheme(to_lowercase(SubSeq(chars, 1, k - 1)),
                           SubSeq(chars, k + 1, Len(chars)))

parse_url(chars) == parse_with_scheme(chars, scheme_end(chars))

url_host(url) == parse_url(url_input(url))

unwrap_or_unknown(host) == IF host = << >> THEN StrUnknown ELSE host[1]

extract_domain(url) == unwrap_or_unknown(url_host(url))

extract_cert_error_reason(e) ==
    LET error_str == e.text IN
    IF contains(error_str, StrSelfSigned) \/ contains(error_str, StrSelfSignedUpper)
    THEN ReasonSelfSigned
    ELSE IF contains(error_str, StrLocalIssuer) THEN ReasonChain
    ELSE IF contains(error_str, StrExpired) THEN ReasonExpired
    ELSE IF contains(error_str, StrHostname) THEN ReasonHostname
    ELSE ReasonPrefix \o error_str

detect_corporate_proxy(reason) ==
    LET lower == to_lowercase(reason) IN
    \/ contains(lower, StrSelfSigned)
    \/ contains(lower, to_lowercase(StrSelfSignedUpper))
    \/ contains(lower, StrLocalIssuer)

CertificateError(url, e) ==
    [kind |-> "CertificateError", domain |-> extract_domain(url),
     reason |-> extract_cert_error_reason(e)]

ConnectionRefused == [kind |-> "ConnectionRefused"]

RequestFailed(e) == [kind |-> "RequestFailed", text |-> e.text]

\* .context("Request failed even with certificate bypass")
BypassFailed(e) == [kind |-> "BypassFailed"]

\* The error stream_to_file returns when a chunk cannot be read or written.
StreamError == [kind |-> "StreamError"]

\* Mutant: a failed retry asks the operator again.
handle_retry_error_reprompt(e) == [next |-> "prompt", err |-> BypassFailed(e)]

\* handle_certificate_error, the retry with the insecure client failed: the
\* error is returned.
handle_retry_error(e) == [next |-> "fail", err |-> BypassFailed(e)]

\* Mutant: the prompt is shown whether or not stdin is a terminal.
classify_first_error_no_tty(url, e, config, terminal) ==
    IF is_certificate_error(e)
    THEN IF config.insecure
         THEN [next |-> "fail", err |-> CertificateError(url, e)]
         ELSE IF config.interactive
         THEN [next |-> "prompt", err |-> CertificateError(url, e)]
         ELSE [next |-> "fail", err |-> CertificateError(url, e)]
    ELSE IF e.connect
    THEN [next |-> "fail", err |-> ConnectionRefused]
    ELSE [next |-> "fail", err |-> RequestFailed(e)]

\* Mutant: the `else if e.is_connect()` arm is missing.
classify_first_error_no_connect_arm(url, e, config, terminal) ==
    IF is_certificate_error(e)
    THEN IF config.insecure
         THEN [next |-> "fail", err |-> CertificateError(url, e)]
         ELSE IF config.interactive /\ terminal
         THEN [next |-> "prompt", err |-> CertificateError(url, e)]
         ELSE [next |-> "fail", err |-> CertificateError(url, e)]
    ELSE [next |-> "fail", err |-> RequestFailed(e)]

\* What request_with_cert_handling does with the error of its first attempt:
\* "prompt" (ask the operator) or the error it returns.
classify_first_error(url, e, config, terminal) ==
    IF is_certificate_error(e)
    THEN IF config.insecure
         THEN [next |-> "fail", err |-> CertificateError(url, e)]
         ELSE IF config.interactive /\ terminal
         THEN [next |-> "prompt", err |-> CertificateError(url, e)]
         ELSE [next |-> "fail", err |-> CertificateError(url, e)]
    ELSE IF e.connect
    THEN [next |-> "fail", err |-> ConnectionRefused]
    ELSE [next |-> "fail", err |-> RequestFailed(e)]

(***************************************************************************)
(* The environment of a populate run: what the network returns, what the   *)
(* operator answers, what is already in the cache.                         *)
(***************************************************************************)
TextSelfSigned ==
    <<"s","e","l","f"," ","s","i","g","n","e","d"," ","c","e","r","t","i","f","i","c","a",
      "t","e"," ","i","n"," ","c","e","r","t","i","f","i","c","a","t","e"," ","c","h","a",
      "i","n">>

TextRefused ==
    <<"t","c","p"," ","c","o","n","n","e","c","t"," ","e","r","r","o","r",":"," ","C","o",
      "n","n","e","c","t","i","o","n"," ","r","e","f","u","s","e","d">>

TextTimedOut ==
    <<"o","p","e","r","a","t","i","o","n"," ","t","i","m","e","d"," ","o","u","t">>

VersionGood ==
    <<"v","1",".","2","8",".","3","+","k","3","s","1">>

VersionTraversal ==
    <<".",".","/","x">>

VersionBackslash ==
    <<"v","1","\\","2">>

VersionNul ==
    <<"v","1","NUL">>

VersionDotDot ==
    <<"v","1",".",".","2">>

TagPrerelease ==
    <<"v","1",".","2","9",".","0","-","r","c","1","+","k","3","s","1">>

TagDraft ==
    <<"v","1",".","3","0",".","0","+","k","3","s","1">>

StrNotFound ==
    <<"N","o","t"," ","F","o","u","n","d">>

ErrSelfSigned == [connect |-> TRUE, text |-> TextSelfSigned]

ErrRefused == [connect |-> TRUE, text |-> TextRefused]

ErrTimedOut == [connect |-> FALSE, text |-> TextTimedOut]

NetErrors == {ErrSelfSigned, ErrRefused, ErrTimedOut}

ManifestLine(digest, sep, name) == digest \o sep \o name \o <<"\n">>

\* The manifest of a release whose binary and image bundles all have the
\* content "ab".
TextFull ==
    ManifestLine(DigestAB, <<" ", " ">>, k3s_binary_name)
    \o ManifestLine(DigestAB, <<" ", " ">>, formats[1])
    \o ManifestLine(DigestAB, <<" ", " ">>, formats[2])
    \o ManifestLine(DigestAB, <<" ", " ">>, formats[3])

\* The same in upper case, single space, binary-mode marker.
TextUpperStar ==
    ManifestLine(to_uppercase(DigestAB), <<" ", "*">>, k3s_binary_name)
    \o ManifestLine(to_uppercase(DigestAB), <<" ", "*">>, formats[1])
    \o ManifestLine(to_uppercase(DigestAB), <<" ", "*">>, formats[2])
    \o ManifestLine(to_uppercase(DigestAB), <<" ", "*">>, formats[3])

TextNoBinary ==
    ManifestLine(DigestAB, <<" ", " ">>, formats[1])
    \o ManifestLine(DigestAB, <<" ", " ">>, formats[2])
    \o ManifestLine(DigestAB, <<" ", " ">>, formats[3])

TextNoImages == ManifestLine(DigestAB, <<" ", " ">>, k3s_binary_name)

ManifestTexts == {TextFull, TextNoBinary, StrNotFound}

\* A response body is the sequence of the chunks it arrives in.
ManifestBodies == {<< text >> : text \in ManifestTexts}

ArtifactBodies == {<< <<"a">> >>, << <<"a">>, <<"b">> >>}

Tasks == {"checksums", "binary", "images"}

Artifacts == {"binary", "images"}

Bodies(t) == IF t = "checksums" THEN ManifestBodies ELSE ArtifactBodies

\* The arguments populate is called with.
VersionArgs ==
    {<< >>, <<VersionGood>>, <<VersionTraversal>>, <<VersionBackslash>>,
     <<VersionNul>>, <<VersionDotDot>>, << << >> >>}

\* The release lists the releases API answers with.
Release(tag, pre, draft) == [tag_name |-> tag, prerelease |-> pre, draft |-> draft]

ReleaseLists ==
    { << Release(TagPrerelease, TRUE, FALSE), Release(VersionGood, FALSE, FALSE),
         Release(TagDraft, FALSE, TRUE) >>,
      << Release(TagPrerelease, TRUE, FALSE) >>,
      << Release(VersionTraversal, FALSE, FALSE) >>,
      << >> }

\* What is in the version directory before the run.
EmptyCache == [x \in {} |-> << >>]

\* A corrupt binary and a good .tar.gz bundle, left by an earlier run.
CachePartial ==
    [x \in {k3s_binary_name, formats[2]} |->
        IF x = k3s_binary_name THEN ContentA ELSE ContentAB]

\* A binary of size zero and a manifest, left by an earlier run.
CacheStale ==
    [x \in {k3s_binary_name, checksums_filename} |->
        IF x = k3s_binary_name THEN ContentEmpty ELSE TextNoImages]

InitialCaches == {EmptyCache, CachePartial, CacheStale}

(***************************************************************************)
(* The download helpers of src/src/utils/download.rs that cache.rs calls.  *)
(***************************************************************************)
\* The destination is there with a size that is not zero.
check_existing_file(fsys, name) == name \in DOMAIN fsys /\ Len(fsys[name]) > 0

\* The file system with `name` created or truncated, then with more bytes.
create_file(fsys, name) ==
    [x \in (DOMAIN fsys) \cup {name} |-> IF x = name THEN << >> ELSE fsys[x]]

write_chunk(fsys, name, chunk) == [fsys EXCEPT ![name] = @ \o chunk]

\* The partial destination file is deleted, if it is there.
cleanup_partial_download(fsys, name) ==
    [x \in (DOMAIN fsys) \ {name} |-> fsys[x]]

(***************************************************************************)
(* populate (src/src/commands/cache.rs).                                   *)
(***************************************************************************)
CacheRoot == <<"<cache-root>">>

\* Path::join of the cache directory and the version.
k3s_version_cache_dir(v) ==
    IF starts_with(v, "/") THEN v ELSE CacheRoot \o <<"/">> \o v

Url(v, name) == K3S_RELEASES_URL \o <<"/">> \o v \o <<"/">> \o name

\* The file a task is fetching: its only one, or the current image format.
TargetName(t, c) ==
    CASE t = "checksums" -> checksums_filename
      [] t = "binary" -> k3s_binary_name
      [] t = "images" -> formats[c]

NoCall ==
    [file |-> << >>, reqs |-> << >>, timeouts |-> << >>, firstErr |-> << >>,
     prompt |-> "none"]

Fail(e) ==
    /\ pc' = "done"
    /\ outcome' = << Err(e) >>

\* Mutant: prereleases and drafts are offered as well.
stable_versions_unfiltered(rs) == [k \in 1..Len(rs) |-> rs[k].tag_name]

\* fetch_available_versions' filter of the release list.
RECURSIVE stable_versions(_)
stable_versions(rs) ==
    IF Len(rs) = 0 THEN << >>
    ELSE (IF ~Head(rs).prerelease /\ ~Head(rs).draft
          THEN << Head(rs).tag_name >> ELSE << >>) \o stable_versions(Tail(rs))

\* The state before populate has done anything.
NothingDone ==
    /\ version = << >>
    /\ validated = FALSE
    /\ versionDir = << >>
    /\ dirCreated = FALSE
    /\ fsChanged = FALSE
    /\ apiRequests = 0
    /\ available = << >>
    /\ checksums = << >>
    /\ tpc = [t \in Tasks |-> "idle"]
    /\ cand = [t \in Tasks |-> 1]
    /\ call = [t \in Tasks |-> NoCall]
    /\ calls = [t \in Tasks |-> 0]
    /\ body = [t \in Tasks |-> << >>]
    /\ lastError = [t \in Tasks |-> << >>]
    /\ result = [t \in Tasks |-> << >>]
    /\ verification = [t \in Tasks |-> << >>]
    /\ verifyCount = [f \in FileNames |-> 0]
    /\ results = << >>
    /\ report = << >>
    /\ warnings = << >>
    /\ outcome = << >>

\* The certificate checks of `rh certs check`: none is running.
certVars == << CRYPTO_PROVIDER_INIT, installs, cpc, tlsConfig, checkResult >>

NoCertCheck ==
    /\ CRYPTO_PROVIDER_INIT = "incomplete"
    /\ installs = 0
    /\ cpc = [c \in 1..NumChecks |-> "idle"]
    /\ tlsConfig = [c \in 1..NumChecks |-> << >>]
    /\ checkResult = [c \in 1..NumChecks |-> << >>]

\* A populate run: its arguments, the terminal and the cache it finds.  A
\* run without a version is started with force off on an empty cache.  The
\* version directory exists when it holds a file; an empty one exists (left
\* by a run that failed before its first download) or does not.
Init ==
    /\ versionArg \in VersionArgs
    /\ insecure \in BOOLEAN
    /\ stdinTerminal \in BOOLEAN
    /\ download_timeout \in DownloadTimeouts
    /\ \/ versionArg # << >> /\ force \in BOOLEAN /\ fs \in InitialCaches
       \/ versionArg = << >> /\ force = FALSE /\ fs = EmptyCache
    /\ dirExists \in (IF fs = EmptyCache /\ versionArg # << >> THEN BOOLEAN
                      ELSE {fs # EmptyCache})
    /\ pc = "start"
    /\ NothingDone
    /\ NoCertCheck
    /\ input = << >>
    /\ output = << >>

taskVars == << tpc, cand, call, calls, body, lastError, result, verification >>

inputVars ==
    << versionArg, force, insecure, stdinTerminal, download_timeout, input, output,
       certVars >>

\* populate, explicit version: `v.to_string()`.
PopulateExplicit ==
    /\ pc = "start"
    /\ versionArg # << >>
    /\ version' = versionArg[1]
    /\ pc' = "validate"
    /\ UNCHANGED << inputVars, taskVars, validated, versionDir, dirCreated, dirExists, fs,
                    fsChanged, apiRequests, available, checksums, verifyCount,
                    results, report, warnings, outcome >>

\* populate, no version: fetch_available_versions.  The client is built
\* first; if that fails no request is sent.
FetchAvailableVersions ==
    /\ pc = "start"
    /\ versionArg = << >>
    /\ \/ /\ Fail(build_client(HttpClientConfig_new(insecure), FALSE).err)
          /\ UNCHANGED << available, apiRequests >>
       \/ /\ build_client(HttpClientConfig_new(insecure), TRUE).ok
          /\ apiRequests' = apiRequests + 1
          /\ \/ \E e \in {"Failed to fetch", "GitHub API returned status",
                           "Failed to parse"} :
                   /\ Fail([kind |-> e])
                   /\ UNCHANGED available
             \/ \E rs \in ReleaseLists :
                   LET versions == stable_versions(rs) IN
                   IF Len(versions) = 0
                   THEN Fail([kind |-> "No stable k3s releases found"])
                        /\ UNCHANGED available
                   ELSE available' = versions /\ pc' = "select" /\ UNCHANGED outcome
    /\ UNCHANGED << inputVars, taskVars, version, validated, versionDir, dirCreated, dirExists,
                    fs, fsChanged, checksums, verifyCount, results, report, warnings >>

\* select_version_interactive: selection 0 is a prompt that fails.
SelectVersionInteractive ==
    /\ pc = "select"
    /\ IF ~stdinTerminal
       THEN Fail([kind |-> "not running in interactive mode"]) /\ UNCHANGED version
       ELSE \E selection \in 0..Len(available) :
                IF selection = 0
                THEN Fail([kind |-> "Failed to get version selection"]) /\ UNCHANGED version
                ELSE version' = available[selection] /\ pc' = "validate"
                     /\ UNCHANGED outcome
    /\ UNCHANGED << inputVars, taskVars, validated, versionDir, dirCreated, dirExists, fs,
                    fsChanged, apiRequests, available, checksums, verifyCount,
                    results, report, warnings >>

\* populate: validate_version(&version)?
ValidateVersion ==
    /\ pc = "validate"
    /\ LET r == validate_version(version) IN
       IF r.ok
       THEN validated' = TRUE /\ pc' = "mkdir" /\ UNCHANGED outcome
       ELSE Fail([kind |-> "PathValidation", msg |-> r.err]) /\ UNCHANGED validated
    /\ UNCHANGED << inputVars, taskVars, version, versionDir, dirCreated, dirExists, fs,
                    fsChanged, apiRequests, available, checksums, verifyCount,
                    results, report, warnings >>

\* populate: k3s_version_cache_dir(&version)? and fs::create_dir_all; either
\* can fail.  create_dir_all creates the directory only if it is not there
\* yet, and changes nothing on disk otherwise.  download_checksums then
\* starts the manifest's download.
CreateVersionDir ==
    /\ pc = "mkdir"
    /\ \/ /\ Fail([kind |-> "NoCacheDir"])
          /\ UNCHANGED << versionDir, dirCreated, dirExists, fsChanged, tpc >>
       \/ /\ versionDir' = << k3s_version_cache_dir(version) >>
          /\ \/ /\ Fail([kind |-> "Failed to create cache directory"])
                /\ UNCHANGED << dirCreated, dirExists, fsChanged, tpc >>
             \/ /\ dirCreated' = TRUE
                /\ dirExists' = TRUE
                /\ fsChanged' = (fsChanged \/ ~dirExists)
                /\ pc' = "checksums"
                /\ tpc' = [tpc EXCEPT !["checksums"] = "start"]
                /\ UNCHANGED outcome
    /\ UNCHANGED << inputVars, version, validated, fs, apiRequests, available,
                    checksums, cand, call, calls, body, lastError, result,
                    verification, verifyCount, results, report, warnings >>

(***************************************************************************)
(* One download task: download_with_progress, for the image bundle inside  *)
(* download_images_with_fallback's loop, and, for the binary and the image *)
(* bundle, download_and_verify's verification.  The futures of join_all    *)
(* run on one thread: a task inside a synchronous stretch (the blocking    *)
(* prompt, the error path, the verification) keeps the thread, and the     *)
(* other task waits.                                                       *)
(***************************************************************************)
SyncStates == {"prompt", "failed", "returned"}

HoldsThread(t) == tpc[t] \in SyncStates

CanRun(t) == \A u \in Tasks \ {t} : ~HoldsThread(u)

\* Mutant: any file that is there counts, whatever its size.
existing_any_size(fsys, name) ==
    IF name \in DOMAIN fsys THEN << Ok(name) >> ELSE << >>

\* download_with_progress, `if let Some(existing) = check_existing_file(..)
\* { return Ok(existing); }`: Some(result) when the task returns at once.
existing(fsys, name) ==
    IF check_existing_file(fsys, name) THEN << Ok(name) >> ELSE << >>

\* check_existing_file, and if the file is not there
\* request_with_cert_handling: the client is built and the first request
\* sent, or the client cannot be built and the call returns that error
\* with no request sent.
TaskStart(t) ==
    /\ tpc[t] = "start"
    /\ CanRun(t)
    /\ LET name == TargetName(t, cand[t])
           config == for_downloads_with_timeout(insecure, download_timeout)
       IN  IF existing(fs, name) # << >>
           THEN /\ result' = [result EXCEPT ![t] = existing(fs, name)]
                /\ tpc' = [tpc EXCEPT ![t] = "returned"]
                /\ UNCHANGED << call, calls, lastError >>
           ELSE \E built \in BOOLEAN :
                LET client == build_client(config, built) IN
                IF client.ok
                THEN /\ call' = [call EXCEPT ![t] =
                             [file |-> name,
                              reqs |-> << client.val >>,
                              timeouts |-> << client_timeout(config) >>,
                              firstErr |-> << >>, prompt |-> "none"]]
                     /\ calls' = [calls EXCEPT ![t] = @ + 1]
                     /\ tpc' = [tpc EXCEPT ![t] = "sent"]
                     /\ UNCHANGED << result, lastError >>
                ELSE /\ lastError' = [lastError EXCEPT ![t] = << client.err >>]
                     /\ tpc' = [tpc EXCEPT ![t] = "failed"]
                     /\ UNCHANGED << call, calls, result >>
    /\ UNCHANGED << inputVars, pc, version, validated, versionDir, dirCreated, dirExists,
                    fs, fsChanged, apiRequests, available, checksums, cand, body,
                    verification, verifyCount, results, report,
                    warnings, outcome >>

\* A response arrives: stream_to_file creates the destination.
BeginStream(t, b) ==
    /\ body' = [body EXCEPT ![t] = b]
    /\ fs' = create_file(fs, call[t].file)
    /\ fsChanged' = TRUE
    /\ tpc' = [tpc EXCEPT ![t] = "stream"]

\* The first attempt of request_with_cert_handling ends.
FirstResponse(t) ==
    /\ tpc[t] = "sent"
    /\ CanRun(t)
    /\ \/ \E b \in Bodies(t) :
            /\ BeginStream(t, b)
            /\ UNCHANGED << call, lastError >>
       \/ \E e \in NetErrors :
            LET c == classify_first_error(Url(version, call[t].file), e,
                                          for_downloads_with_timeout(insecure,
                                                                     download_timeout),
                                          stdinTerminal)
            IN  /\ call' = [call EXCEPT ![t].firstErr = << e >>]
                /\ lastError' = [lastError EXCEPT ![t] = << c.err >>]
                /\ tpc' = [tpc EXCEPT ![t] = IF c.next = "prompt" THEN "prompt" ELSE "failed"]
                /\ UNCHANGED << body, fs, fsChanged >>
    /\ UNCHANGED << inputVars, pc, version, validated, versionDir, dirCreated, dirExists,
                    apiRequests, available, checksums, cand, calls, result,
                    verification, verifyCount, results, report, warnings, outcome >>

\* handle_certificate_error's Confirm prompt: accepted, declined, or failing
\* (unwrap_or_else gives false).  Accepted: the insecure client is built and
\* the request sent again with it; if it cannot be built the call returns
\* that error and nothing is sent.
PromptAnswer(t) ==
    /\ tpc[t] = "prompt"
    /\ \E answer \in {"accepted", "declined", "failed"} :
        LET proceed == (answer = "accepted") IN
        IF proceed
        THEN \E built \in BOOLEAN :
             LET insecure_client == build_insecure_client(built) IN
             IF insecure_client.ok
             THEN /\ call' = [call EXCEPT
                                ![t].prompt = answer,
                                ![t].reqs = Append(@, insecure_client.val),
                                ![t].timeouts = Append(@, insecure_client_timeout)]
                  /\ tpc' = [tpc EXCEPT ![t] = "retry"]
                  /\ UNCHANGED lastError
             ELSE /\ call' = [call EXCEPT ![t].prompt = answer]
                  /\ lastError' = [lastError EXCEPT ![t] = << insecure_client.err >>]
                  /\ tpc' = [tpc EXCEPT ![t] = "failed"]
        ELSE /\ call' = [call EXCEPT ![t].prompt = answer]
             /\ tpc' = [tpc EXCEPT ![t] = "failed"]
             /\ UNCHANGED lastError
    /\ UNCHANGED << inputVars, pc, version, validated, versionDir, dirCreated, dirExists, fs,
                    fsChanged, apiRequests, available, checksums, cand, calls, body,
                    result, verification, verifyCount, results, report,
                    warnings, outcome >>

\* The retry with the insecure client ends.
RetryResponse(t) ==
    /\ tpc[t] = "retry"
    /\ CanRun(t)
    /\ \/ \E b \in Bodies(t) :
            /\ BeginStream(t, b)
            /\ UNCHANGED lastError
       \/ \E e \in NetErrors :
            LET c == handle_retry_error(e) IN
            /\ lastError' = [lastError EXCEPT ![t] = << c.err >>]
            /\ tpc' = [tpc EXCEPT ![t] = IF c.next = "prompt" THEN "prompt" ELSE "failed"]
            /\ UNCHANGED << body, fs, fsChanged >>
    /\ UNCHANGED << inputVars, pc, version, validated, versionDir, dirCreated, dirExists,
                    apiRequests, available, checksums, cand, call, calls, result,
                    verification, verifyCount, results, report, warnings, outcome >>

\* stream_to_file writes the next chunk of the response to the file.
StreamChunk(t) ==
    /\ tpc[t] = "stream"
    /\ CanRun(t)
    /\ body[t] # << >>
    /\ fs' = write_chunk(fs, call[t].file, Head(body[t]))
    /\ body' = [body EXCEPT ![t] = Tail(@)]
    /\ UNCHANGED << inputVars, pc, version, validated, versionDir, dirCreated, dirExists,
                    fsChanged, apiRequests, available, checksums, tpc, cand, call,
                    calls, lastError, result, verification, verifyCount, results,
                    report, warnings, outcome >>

\* Mutant: the partial file is left where it is.
on_stream_error_keep(fsys, name) == fsys

\* download_with_progress, `if let Err(e) = stream_to_file(..)`: the partial
\* file is cleaned up before the error is returned.
on_stream_error(fsys, name) == cleanup_partial_download(fsys, name)

\* stream_to_file fails (the connection breaks, the disk is full):
\* download_with_progress deletes the partial file.
StreamFail(t) ==
    /\ tpc[t] = "stream"
    /\ CanRun(t)
    /\ fs' = on_stream_error(fs, call[t].file)
    /\ body' = [body EXCEPT ![t] = << >>]
    /\ lastError' = [lastError EXCEPT ![t] = << StreamError >>]
    /\ tpc' = [tpc EXCEPT ![t] = "failed"]
    /\ UNCHANGED << inputVars, pc, version, validated, versionDir, dirCreated, dirExists,
                    fsChanged, apiRequests, available, checksums, cand, call, calls,
                    result, verification, verifyCount, results, report, warnings,
                    outcome >>

\* stream_to_file is through: download_with_progress returns Ok(path).
StreamFinish(t) ==
    /\ tpc[t] = "stream"
    /\ CanRun(t)
    /\ body[t] = << >>
    /\ result' = [result EXCEPT ![t] = << Ok(call[t].file) >>]
    /\ call' = [call EXCEPT ![t] = NoCall]
    /\ tpc' = [tpc EXCEPT ![t] = "returned"]
    /\ UNCHANGED << inputVars, pc, version, validated, versionDir, dirCreated, dirExists, fs,
                    fsChanged, apiRequests, available, checksums, cand, calls,
                    body, lastError, verification, verifyCount, results, report,
                    warnings, outcome >>

\* Mutant: the loop stops one format early (the plain .tar is never tried).
next_candidate_stops_early(t, c) == t = "images" /\ c < Len(formats) - 1

\* download_with_progress returned an error.  The image bundle goes on to
\* its next format, after cleanup_partial_download, and gives up after the
\* last one with last_error; the other tasks return the error.
next_candidate(t, c) == t = "images" /\ c < Len(formats)

\* anyhow!("Failed to download airgap images")
AggregateImageFailure == [kind |-> "Failed to download airgap images"]

\* Mutant: the aggregate error replaces the last error.
final_error_generic(last_error) == AggregateImageFailure

\* download_images_with_fallback's `last_error.unwrap_or_else(..)`: the last
\* error as it is; the aggregate error only if there is none.
final_error(last_error) ==
    IF last_error = << >> THEN AggregateImageFailure ELSE last_error[1]

TaskFailed(t) ==
    /\ tpc[t] = "failed"
    /\ IF t = "images"
       THEN /\ fs' = cleanup_partial_download(fs, TargetName(t, cand[t]))
            /\ fsChanged' = (fsChanged \/ TargetName(t, cand[t]) \in DOMAIN fs)
       ELSE fs' = fs /\ UNCHANGED fsChanged
    /\ call' = [call EXCEPT ![t] = NoCall]
    /\ IF next_candidate(t, cand[t])
       THEN /\ cand' = [cand EXCEPT ![t] = @ + 1]
            /\ tpc' = [tpc EXCEPT ![t] = "start"]
            /\ UNCHANGED result
       ELSE /\ result' = [result EXCEPT ![t] =
                        << Err(IF t = "images" THEN final_error(lastError[t])
                               ELSE lastError[t][1]) >>]
            /\ tpc' = [tpc EXCEPT ![t] = "returned"]
            /\ UNCHANGED cand
    /\ UNCHANGED << inputVars, pc, version, validated, versionDir, dirCreated, dirExists,
                    apiRequests, available, checksums, calls, body,
                    lastError, verification, verifyCount, results, report,
                    warnings, outcome >>

\* download_and_verify's `result.as_ref().ok().map(..)`: a file that was
\* downloaded is verified against the manifest, a failed download is not.
verify_after_download(r, fsys, cs) ==
    IF r.ok THEN << verify_file_from_checksums(fsys, r.val, cs) >> ELSE << >>

\* Mutant: the verification is put off until the sibling's download has
\* returned as well.
verification_ready_after_sibling(tp, t) ==
    \A u \in Artifacts : tp[u] \in {"returned", "done"}

\* download_and_verify: the verification is the statement after the awaited
\* download, inside the task's own future.
verification_ready(tp, t) == tp[t] = "returned"

\* download_and_verify: the download returned; the verification follows at
\* once and the task's DownloadResult is complete.
DownloadAndVerify(t) ==
    /\ t \in Artifacts
    /\ verification_ready(tpc, t)
    /\ LET r == result[t][1]
           v == verify_after_download(r, fs, checksums[1])
       IN  /\ verification' = [verification EXCEPT ![t] = v]
           /\ verifyCount' = IF r.ok
                             THEN [verifyCount EXCEPT ![r.val] = @ + Len(v)]
                             ELSE verifyCount
    /\ tpc' = [tpc EXCEPT ![t] = "done"]
    /\ UNCHANGED << inputVars, pc, version, validated, versionDir, dirCreated, dirExists, fs,
                    fsChanged, apiRequests, available, checksums, cand, call, calls,
                    body, lastError, result, results, report, warnings, outcome >>

\* download_checksums: the manifest's download is over; the file is read
\* (which can fail) and parsed.  On success download_remaining_files starts
\* the two artifact tasks.
DownloadChecksumsFinish ==
    /\ pc = "checksums"
    /\ tpc["checksums"] = "returned"
    /\ LET r == result["checksums"][1] IN
       IF ~r.ok
       THEN /\ Fail(r.err)
            /\ tpc' = [tpc EXCEPT !["checksums"] = "done"]
            /\ UNCHANGED checksums
       ELSE \/ /\ Fail([kind |-> "Failed to read checksums file"])
               /\ tpc' = [tpc EXCEPT !["checksums"] = "done"]
               /\ UNCHANGED checksums
            \/ LET parsed == parse_checksum_file(fs[r.val]) IN
               IF ~parsed.ok
               THEN /\ Fail([kind |-> parsed.err])
                    /\ tpc' = [tpc EXCEPT !["checksums"] = "done"]
                    /\ UNCHANGED checksums
               ELSE /\ checksums' = << parsed.val >>
                    /\ pc' = "remaining"
                    /\ tpc' = [t \in Tasks |-> IF t = "checksums" THEN "done" ELSE "start"]
                    /\ UNCHANGED outcome
    /\ UNCHANGED << inputVars, version, validated, versionDir, dirCreated, dirExists, fs,
                    fsChanged, apiRequests, available, cand, call, calls, body,
                    lastError, result, verification, verifyCount, results, report,
                    warnings >>

\* The DownloadResult of a finished task; `filename` is the name
\* get_download_files gives the task.
file_type_name(t) ==
    LET i == CHOOSE k \in 1..Len(get_download_files) : get_download_files[k][1] = t
    IN  get_download_files[i][2]

DownloadResult(t) ==
    [filename |-> file_type_name(t), result |-> result[t][1],
     verification |-> verification[t]]

\* process_download_results: the download errors, the verification errors
\* and the warnings printed under --force, in the order of the results.  An
\* entry is "{file}: {msg}"; a download's msg is its error, a verification's
\* the fixed text "checksum verification failed".
RECURSIVE collect_results(_, _, _)
collect_results(rs, forced, acc) ==
    IF Len(rs) = 0 THEN acc
    ELSE LET d == Head(rs)
             next ==
                IF d.result.ok
                THEN IF d.verification # << >> /\ ~d.verification[1].ok
                     THEN IF forced
                          THEN [acc EXCEPT !.warnings =
                                   Append(@, [file |-> d.result.val,
                                              err |-> d.verification[1].err])]
                          ELSE [acc EXCEPT !.verification_errors =
                                   Append(@, [file |-> d.result.val,
                                              msg |-> [kind |-> "checksum verification failed"]])]
                     ELSE acc
                ELSE [acc EXCEPT !.download_errors =
                         Append(@, [file |-> d.filename, msg |-> d.result.err])]
         IN  collect_results(Tail(rs), forced, next)

NoErrors ==
    [download_errors |-> << >>, verification_errors |-> << >>, warnings |-> << >>]

\* Mutant: a failed verification is only a warning, force or not.
process_download_results_lenient(rs, forced) ==
    LET acc == collect_results(rs, TRUE, NoErrors)
    IN  [all_errors |-> acc.download_errors \o acc.verification_errors,
         warnings |-> acc.warnings]

\* Mutant: a failed verification is an error, force or not.
process_download_results_strict(rs, forced) ==
    LET acc == collect_results(rs, FALSE, NoErrors)
    IN  [all_errors |-> acc.download_errors \o acc.verification_errors,
         warnings |-> acc.warnings]

process_download_results(rs, forced) ==
    LET acc == collect_results(rs, forced, NoErrors)
    IN  [all_errors |-> acc.download_errors \o acc.verification_errors,
         warnings |-> acc.warnings]

\* Mutant: the join returns as soon as one task has failed (try_join_all).
join_all_fail_fast(tp, res) ==
    \/ \A t \in Artifacts : tp[t] = "done"
    \/ \E t \in Artifacts : tp[t] = "done" /\ ~res[t][1].ok

\* join_all is ready when every future has produced its DownloadResult.
join_all(tp, res) == \A t \in Artifacts : tp[t] = "done"

\* The results in the order of the futures: binary, then images.
RECURSIVE collected(_, _)
collected(ts, tp) ==
    IF Len(ts) = 0 THEN << >>
    ELSE (IF tp[Head(ts)] = "done" THEN << DownloadResult(Head(ts)) >> ELSE << >>)
         \o collected(Tail(ts), tp)

\* download_remaining_files after join_all: both tasks are done, their
\* results are handed to process_download_results.
ProcessDownloadResults ==
    /\ pc = "remaining"
    /\ join_all(tpc, result)
    /\ LET rs == collected(<< "binary", "images" >>, tpc)
           p == process_download_results(rs, force)
       IN  /\ results' = rs
           /\ report' = p.all_errors
           /\ warnings' = warnings \o p.warnings
           /\ IF Len(p.all_errors) = 0
              THEN pc' = "final" /\ UNCHANGED outcome
              ELSE Fail([kind |-> "Failed to download/verify",
                         count |-> Len(p.all_errors), errors |-> p.all_errors])
    /\ UNCHANGED << inputVars, taskVars, version, validated, versionDir, dirCreated, dirExists,
                    fs, fsChanged, apiRequests, available, checksums, verifyCount >>

\* verify_and_print_success: the binary, if it is there, is verified again.
VerifyAndPrintSuccess ==
    /\ pc = "final"
    /\ IF k3s_binary_name \in DOMAIN fs
       THEN LET v == verify_file_from_checksums(fs, k3s_binary_name, checksums[1]) IN
            /\ verifyCount' = [verifyCount EXCEPT ![k3s_binary_name] = @ + 1]
            /\ IF v.ok
               THEN pc' = "done" /\ outcome' = << Ok("cached") >> /\ UNCHANGED warnings
               ELSE IF force
               THEN /\ pc' = "done"
                    /\ outcome' = << Ok("cached") >>
                    /\ warnings' = Append(warnings, [file |-> k3s_binary_name,
                                                     err |-> v.err])
               ELSE /\ Fail([kind |-> "Binary checksum verification failed",
                             err |-> v.err])
                    /\ UNCHANGED warnings
       ELSE /\ pc' = "done"
            /\ outcome' = << Ok("cached") >>
            /\ UNCHANGED << verifyCount, warnings >>
    /\ UNCHANGED << inputVars, taskVars, version, validated, versionDir, dirCreated, dirExists,
                    fs, fsChanged, apiRequests, available, checksums, results,
                    report >>

Next ==
    \/ PopulateExplicit
    \/ FetchAvailableVersions
    \/ SelectVersionInteractive
    \/ ValidateVersion
    \/ CreateVersionDir
    \/ DownloadChecksumsFinish
    \/ ProcessDownloadResults
    \/ VerifyAndPrintSuccess
    \/ \E t \in Tasks :
        \/ TaskStart(t)
        \/ FirstResponse(t)
        \/ PromptAnswer(t)
        \/ RetryResponse(t)
        \/ StreamChunk(t)
        \/ StreamFail(t)
        \/ StreamFinish(t)
        \/ TaskFailed(t)
        \/ DownloadAndVerify(t)

Spec == Init /\ [][Next]_vars

(***************************************************************************)
(* validate_version on its own: every string over the characters that      *)
(* matter, up to MaxVersionLen characters.                                  *)
(***************************************************************************)
VersionAlphabet == {"v", "1", ".", "+", "/", "\\", "NUL"}

StringsUpTo(alphabet, n) == UNION {[1..k -> alphabet] : k \in 0..n}

\* The variables of a populate run, for a specification that runs none.
NoRun ==
    /\ versionArg = << >>
    /\ force = FALSE
    /\ insecure = FALSE
    /\ stdinTerminal = FALSE
    /\ download_timeout = DEFAULT_DOWNLOAD_TIMEOUT_SECS
    /\ fs = EmptyCache
    /\ dirExists = FALSE
    /\ pc = "pure"
    /\ NothingDone
    /\ NoCertCheck

runVars ==
    << versionArg, force, insecure, stdinTerminal, download_timeout, pc, version, validated,
       versionDir, dirCreated, dirExists, fs, fsChanged, apiRequests, available,
       checksums, tpc, cand, call, calls, body, lastError, result,
       verification, verifyCount, results, report, warnings, outcome,
       certVars >>

InitValidate ==
    /\ NoRun
    /\ input \in StringsUpTo(VersionAlphabet, MaxVersionLen)
    /\ output = << >>

ApplyValidateVersion ==
    /\ output = << >>
    /\ output' = << validate_version(input) >>
    /\ UNCHANGED << input, runVars >>

NextValidate == ApplyValidateVersion

SpecValidate == InitValidate /\ [][NextValidate]_vars

(***************************************************************************)
(* The pure functions on their own: each input names the function it is    *)
(* for, and the function's action computes the result.                     *)
(***************************************************************************)
\* verify_file_from_checksums: a file that is absent or has one of the
\* modelled contents, and a manifest with or without an entry for it (the
\* manifest always has an entry for another file).
VerifyInputs ==
    [fn : {"verify_file_from_checksums"},
     name : FileNames \ {checksums_filename},
     file : {<< >>, << ContentEmpty >>, << ContentA >>, << ContentAB >>},
     entry : {<< >>, << DigestA >>, << to_uppercase(DigestA) >>, << DigestAB >>,
              << to_uppercase(DigestAB) >>, << DigestEmpty >>}]

VerifyFs(i) == IF i.file = << >> THEN EmptyCache ELSE [x \in {i.name} |-> i.file[1]]

VerifyManifest(i) ==
    LET others == [x \in {checksums_filename} |-> DigestAB]
    IN  IF i.entry = << >> THEN others ELSE insert(others, i.name, i.entry[1])

ApplyVerifyFile ==
    /\ output = << >>
    /\ input.fn = "verify_file_from_checksums"
    /\ output' = << verify_file_from_checksums(VerifyFs(input), input.name,
                                               VerifyManifest(input)) >>
    /\ UNCHANGED << input, runVars >>

\* parse_checksum_file: manifests of up to MaxLines lines.  An entry line
\* is written from a digest, a separator and a file name; the other lines
\* are given as they stand.
EntryLine(lead, digest, sep, name, trail) ==
    [kind |-> "entry", text |-> lead \o digest \o sep \o name \o trail,
     name |-> name, digest |-> digest]

OtherLine(kind, text) == [kind |-> kind, text |-> text]

DigestNotHex == <<"g">> \o Tail(DigestA)

EntryLines ==
    { EntryLine(<< >>, d, sep, n, << >>) :
        d \in {DigestA, to_uppercase(DigestAB)},
        sep \in {<<" ", " ">>, <<" ", "*">>},
        n \in {k3s_binary_name, formats[1]} }
    \cup { EntryLine(<< >>, DigestA, <<" ">>, k3s_binary_name, << >>),
           EntryLine(<< >>, DigestAB, <<" ", " ">>, k3s_binary_name, <<"\r">>),
           EntryLine(<<" ", " ">>, DigestEmpty, <<" ", " ">>, formats[1], <<" ">>),
           EntryLine(<<"">>, DigestA, <<" ", " ">>, formats[1], <<" ">>) }

SkippedLines ==
    { OtherLine("blank", << >>),
      OtherLine("comment", <<"#", " ", "k", "3", "s">>) }

EdgeLines ==
    { OtherLine("edge", DigestA),
      OtherLine("edge", DigestA \o <<" ", " ">> \o k3s_binary_name \o <<" ", "x">>),
      OtherLine("edge", DigestA \o <<"\t">> \o k3s_binary_name),
      OtherLine("edge", DigestA \o <<" ", "\t">> \o k3s_binary_name),
      OtherLine("edge", <<"a", "b", "c", " ", " ">> \o k3s_binary_name),
      OtherLine("edge", DigestNotHex \o <<" ", " ">> \o k3s_binary_name),
      OtherLine("edge", DigestA \o <<" ", "*", "*">> \o k3s_binary_name) }

ManifestLineSet == EntryLines \cup SkippedLines \cup EdgeLines

RECURSIVE RenderManifest(_)
RenderManifest(ls) ==
    IF Len(ls) = 0 THEN << >>
    ELSE Head(ls).text \o <<"\n">> \o RenderManifest(Tail(ls))

ParseInputs ==
    [fn : {"parse_checksum_file"},
     lines : UNION {[1..k -> ManifestLineSet] : k \in 0..MaxLines}]

ApplyParseChecksumFile ==
    /\ output = << >>
    /\ input.fn = "parse_checksum_file"
    /\ output' = << parse_checksum_file(RenderManifest(input.lines)) >>
    /\ UNCHANGED << input, runVars >>

\* `rh cache list`: create_cached_file_entry and scan_version_files.  `fsys`
\* is the version directory, `readable` the part of it that can be opened.
\* CachedFile.verified is << >> for None, << b >> for Some(b).
create_cached_file_entry(fsys, readable, filename, cs) ==
    LET verified ==
            IF cs = << >> THEN << >>
            ELSE LET v == verify_file_from_checksums(readable, filename, cs[1]) IN
                 IF v.ok THEN << TRUE >>
                 ELSE IF v.err.kind = "Mismatch" THEN << FALSE >>
                 ELSE << >>
    IN  [name |-> filename, size |-> Len(fsys[filename]), verified |-> verified]

RECURSIVE scan_expected(_, _, _, _)
scan_expected(expected, fsys, readable, cs) ==
    IF Len(expected) = 0 THEN << >>
    ELSE (IF Head(expected)[2] \in DOMAIN fsys
          THEN << create_cached_file_entry(fsys, readable, Head(expected)[2], cs) >>
          ELSE << >>)
         \o scan_expected(Tail(expected), fsys, readable, cs)

\* The files found besides the expected ones are listed in the order the
\* directory gives them; they are kept here as a set.
scan_version_files(fsys, readable) ==
    LET checksums_path == checksums_filename
        parsed == IF checksums_path \in DOMAIN readable
                  THEN parse_checksum_file(readable[checksums_path])
                  ELSE Err("read_to_string")
        cs == IF parsed.ok THEN << parsed.val >> ELSE << >>
        expected_files == get_download_files
        expected_names == {expected_files[k][2] : k \in 1..Len(expected_files)}
    IN  [files |-> scan_expected(expected_files, fsys, readable, cs),
         additional |-> {[name |-> n, size |-> Len(fsys[n]), verified |-> << >>] :
                            n \in (DOMAIN fsys) \ expected_names},
         complete |-> expected_names \subseteq DOMAIN fsys]

\* Version directories: each file absent or with one of a few contents, and
\* at most one file that cannot be opened.
ScanContents(n) ==
    IF n = checksums_filename
    THEN {<< >>, << TextFull >>, << TextNoBinary >>, << StrNotFound >>}
    ELSE IF n = formats[3] THEN {<< >>}
    ELSE IF n = formats[1] THEN {<< >>, << ContentAB >>}
    ELSE {<< >>, << ContentA >>, << ContentAB >>}

ScanInputs ==
    [fn : {"scan_version_files"},
     files : {f \in [FileNames -> UNION {ScanContents(n) : n \in FileNames}] :
                 \A n \in FileNames : f[n] \in ScanContents(n)},
     unreadable : {{}, {k3s_binary_name}, {checksums_filename}}]

ScanDir(files, hidden) ==
    [n \in {x \in FileNames : files[x] # << >> /\ x \notin hidden} |-> files[n][1]]

ApplyScanVersionFiles ==
    /\ output = << >>
    /\ input.fn = "scan_version_files"
    /\ output' = << scan_version_files(ScanDir(input.files, {}),
                                       ScanDir(input.files, input.unreadable)) >>
    /\ UNCHANGED << input, runVars >>

\* request_with_cert_handling, first attempt failed: the error texts of the
\* TLS stacks, the --insecure flag and whether stdin is a terminal.
TextSelfSignedUpper ==
    <<"c","e","r","t","i","f","i","c","a","t","e"," ","v","e","r","i","f","y"," ","f",
      "a","i","l","e","d",":"," ","S","E","L","F","_","S","I","G","N","E","D","_","C",
      "E","R","T","_","I","N","_","C","H","A","I","N">>

TextLocalIssuer ==
    <<"u","n","a","b","l","e"," ","t","o"," ","g","e","t"," ","l","o","c","a","l"," ",
      "i","s","s","u","e","r"," ","c","e","r","t","i","f","i","c","a","t","e">>

TextExpired ==
    <<"c","e","r","t","i","f","i","c","a","t","e"," ","h","a","s"," ","e","x","p","i",
      "r","e","d">>

TextHostname ==
    <<"c","e","r","t","i","f","i","c","a","t","e"," ","h","o","s","t","n","a","m","e",
      " ","m","i","s","m","a","t","c","h">>

TextSelfSignedCapital ==
    <<"S","e","l","f"," ","S","i","g","n","e","d"," ","c","e","r","t","i","f","i","c",
      "a","t","e">>

TextUnknownIssuer ==
    <<"i","n","v","a","l","i","d"," ","p","e","e","r"," ","c","e","r","t","i","f","i",
      "c","a","t","e",":"," ","U","n","k","n","o","w","n","I","s","s","u","e","r">>

PromptErrorTexts ==
    {TextSelfSigned, TextSelfSignedUpper, TextLocalIssuer, TextExpired, TextHostname,
     TextSelfSignedCapital, TextUnknownIssuer, TextRefused, TextTimedOut}

PromptInputs ==
    [fn : {"request_with_cert_handling"},
     e : [connect : BOOLEAN, text : PromptErrorTexts],
     insecure : BOOLEAN,
     terminal : BOOLEAN]

\* handle_certificate_error's eprintln! lines before the Confirm: the
\* domain, the reason and, if detect_corporate_proxy(&error_reason), the
\* corporate-proxy hint.
prompt_lines(url, e) ==
    LET error_reason == extract_cert_error_reason(e) IN
    [domain |-> extract_domain(url), reason |-> error_reason,
     proxy_hint |-> detect_corporate_proxy(error_reason)]

\* The first attempt's error is classified and, if the operator is to be
\* asked, the prompt is printed.
ApplyFirstError ==
    /\ output = << >>
    /\ input.fn = "request_with_cert_handling"
    /\ LET url == Url(VersionGood, k3s_binary_name)
           c == classify_first_error(url, input.e,
                    for_downloads_with_timeout(input.insecure, download_timeout),
                    input.terminal)
       IN  output' = << [next |-> c.next, err |-> c.err,
                         prompt |-> IF c.next = "prompt"
                                    THEN << prompt_lines(url, input.e) >>
                                    ELSE << >>] >>
    /\ UNCHANGED << input, runVars >>

PureInputs == VerifyInputs \cup ParseInputs \cup ScanInputs \cup PromptInputs

InitPure ==
    /\ NoRun
    /\ input \in PureInputs
    /\ output = << >>

NextPure ==
    \/ ApplyVerifyFile
    \/ ApplyParseChecksumFile
    \/ ApplyScanVersionFiles
    \/ ApplyFirstError

SpecPure == InitPure /\ [][NextPure]_vars

(***************************************************************************)
(* `rh certs check` (src/src/commands/certs.rs): the checks of the         *)
(* endpoints run as the futures of one join_all; each goes through the     *)
(* static Once before it builds its TLS configuration.  The steps of the   *)
(* checks are interleaved freely, as for callers on several threads.       *)
(***************************************************************************)
nonCertVars ==
    << versionArg, force, insecure, stdinTerminal, download_timeout, pc, version, validated,
       versionDir, dirCreated, dirExists, fs, fsChanged, apiRequests, available,
       checksums, tpc, cand, call, calls, body, lastError, result,
       verification, verifyCount, results, report, warnings, outcome,
       input, output >>

Checks == 1..NumChecks

\* check: one check per endpoint, for 1 to NumChecks endpoints.
InitCerts ==
    /\ versionArg = << >>
    /\ force = FALSE
    /\ insecure \in BOOLEAN
    /\ stdinTerminal = FALSE
    /\ download_timeout = DEFAULT_DOWNLOAD_TIMEOUT_SECS
    /\ fs = EmptyCache
    /\ dirExists = FALSE
    /\ pc = "certs"
    /\ NothingDone
    /\ input \in [fn : {"check"}, endpoints : Checks]
    /\ output = << >>
    /\ CRYPTO_PROVIDER_INIT = "incomplete"
    /\ installs = 0
    /\ cpc = [c \in Checks |-> IF c <= input.endpoints THEN "start" ELSE "idle"]
    /\ tlsConfig = [c \in Checks |-> << >>]
    /\ checkResult = [c \in Checks |-> << >>]

\* Mutant: a caller that finds the Once not yet complete runs the closure,
\* whether or not another caller is running it.
call_once_unguarded(once) == IF once = "complete" THEN "skip" ELSE "run"

\* Once::call_once: the first caller runs the closure, a caller that
\* arrives while it runs waits, a later one passes.
call_once(once) ==
    CASE once = "incomplete" -> "run"
      [] once = "running" -> "wait"
      [] once = "complete" -> "skip"

\* check_domain_inner: CRYPTO_PROVIDER_INIT.call_once(..)
CallOnce(c) ==
    /\ cpc[c] = "start"
    /\ call_once(CRYPTO_PROVIDER_INIT) # "wait"
    /\ IF call_once(CRYPTO_PROVIDER_INIT) = "run"
       THEN /\ CRYPTO_PROVIDER_INIT' = "running"
            /\ cpc' = [cpc EXCEPT ![c] = "installing"]
       ELSE /\ cpc' = [cpc EXCEPT ![c] = "config"]
            /\ UNCHANGED CRYPTO_PROVIDER_INIT
    /\ UNCHANGED << nonCertVars, installs, tlsConfig, checkResult >>

\* The closure: default_provider().install_default(); the Once is complete
\* when it returns.
InstallProvider(c) ==
    /\ cpc[c] = "installing"
    /\ installs' = installs + 1
    /\ CRYPTO_PROVIDER_INIT' = "complete"
    /\ cpc' = [cpc EXCEPT ![c] = "config"]
    /\ UNCHANGED << nonCertVars, tlsConfig, checkResult >>

\* The ClientConfig of a check: NoVerifier under --insecure, the platform
\* verifier otherwise; `provider` records whether the crypto provider was
\* installed when the configuration was built.
ClientConfig(verifier) ==
    [verifier |-> verifier, provider |-> installs > 0]

\* check_domain_inner builds its TLS configuration; with the platform
\* verifier that can fail.
BuildTlsConfig(c) ==
    /\ cpc[c] = "config"
    /\ \/ /\ tlsConfig' = [tlsConfig EXCEPT ![c] =
                  << ClientConfig(IF insecure THEN "NoVerifier" ELSE "platform") >>]
          /\ cpc' = [cpc EXCEPT ![c] = "connect"]
          /\ UNCHANGED checkResult
       \/ /\ ~insecure
          /\ checkResult' = [checkResult EXCEPT ![c] =
                  << Err("Failed to initialize platform certificate verifier") >>]
          /\ cpc' = [cpc EXCEPT ![c] = "done"]
          /\ UNCHANGED tlsConfig
    /\ UNCHANGED << nonCertVars, CRYPTO_PROVIDER_INIT, installs >>

\* timeout(TcpStream::connect(..)).await, then ServerName::try_from: the
\* connection times out or fails, the domain is no server name, or the
\* check goes on to the handshake.
Connect(c) ==
    /\ cpc[c] = "connect"
    /\ \/ /\ \E e \in {"timed out", "Failed to connect", "Invalid domain name"} :
                checkResult' = [checkResult EXCEPT ![c] = << Err(e) >>]
          /\ cpc' = [cpc EXCEPT ![c] = "done"]
       \/ /\ cpc' = [cpc EXCEPT ![c] = "handshake"]
          /\ UNCHANGED checkResult
    /\ UNCHANGED << nonCertVars, CRYPTO_PROVIDER_INIT, installs, tlsConfig >>

\* connector.connect(server_name, stream).await and the reading of the
\* peer's chain: the handshake fails, no chain or an empty chain came, or
\* the leaf certificate is the result.
Handshake(c) ==
    /\ cpc[c] = "handshake"
    /\ \E r \in {Ok("certificate"), Err("TLS handshake failed"),
                  Err("No certificates received"), Err("Empty certificate chain")} :
          checkResult' = [checkResult EXCEPT ![c] = << r >>]
    /\ cpc' = [cpc EXCEPT ![c] = "done"]
    /\ UNCHANGED << nonCertVars, CRYPTO_PROVIDER_INIT, installs, tlsConfig >>

NextCerts ==
    \E c \in Checks :
        \/ CallOnce(c)
        \/ InstallProvider(c)
        \/ BuildTlsConfig(c)
        \/ Connect(c)
        \/ Handshake(c)

SpecCerts == InitCerts /\ [][NextCerts]_vars

(***************************************************************************)
(* The properties checked.                                                 *)
(***************************************************************************)
Done == pc = "done"

Succeeded == Done /\ outcome[1].ok

ManifestOk == checksums # << >>

Downloaded(t) == result[t] # << >> /\ result[t][1].ok

AllDownloaded == \A t \in Artifacts : Downloaded(t)

IsMismatch(v) == v # << >> /\ ~v[1].ok /\ v[1].err.kind = "Mismatch"

IsNotFound(v) == v # << >> /\ ~v[1].ok /\ v[1].err.kind = "NotFound"

IsVerified(v) == v # << >> /\ v[1].ok

Range(seq) == {seq[i] : i \in 1..Len(seq)}

\* A version string with a path separator, a NUL byte or "..".
HasForbidden(v) ==
    \/ \E i \in 1..Len(v) : v[i] \in {"/", "\\", "NUL"}
    \/ \E i \in 1..(Len(v) - 1) : v[i] = "." /\ v[i + 1] = "."

\* A manifest text whose lines are all blank, comments or
\* "<64 hex digits> <name>".
IsEntryLine(l) ==
    /\ Len(l) > HashLen + 1
    /\ \A i \in 1..HashLen : l[i] \in HexDigits
    /\ l[HashLen + 1] = " "

WellFormedManifest(text) ==
    LET ls == lines(text) IN
    \A i \in 1..Len(ls) :
        LET l == trim(ls[i]) IN
        Len(l) = 0 \/ l[1] = "#" \/ IsEntryLine(l)

\* C1: with force off, populate succeeds only if the manifest was downloaded
\* and parsed, both artifact downloads succeeded, and no verification of
\* the run ended in Mismatch (the files on disk agree with their entries).
C1_SuccessNeedsAllVerified ==
    (Succeeded /\ ~force) =>
        /\ ManifestOk
        /\ Downloaded("checksums")
        /\ AllDownloaded
        /\ \A t \in Artifacts :
            /\ ~IsMismatch(verification[t])
            /\ LET name == result[t][1].val IN
               name \in DOMAIN checksums[1] =>
                   Sha256(fs[name]) = to_lowercase(checksums[1][name])

C1_Witness ==
    /\ Succeeded /\ ~force
    /\ \A t \in Artifacts : IsVerified(verification[t])

\* C2 (as stated): with force off, when every download succeeds (here: each
\* artifact fetched with one request) and the only anomaly is a file without
\* a manifest entry, that file adds no hard error and populate succeeds.
C2_MissingEntryIsNoError ==
    ( /\ Done /\ ~force /\ ManifestOk /\ AllDownloaded
      /\ \A t \in Tasks : calls[t] = 1
      /\ \A t \in Artifacts : IsVerified(verification[t]) \/ IsNotFound(verification[t])
      /\ \E t \in Artifacts : IsNotFound(verification[t]) )
    => (outcome[1].ok /\ report = << >>)

\* C3: with force on, populate succeeds exactly when the manifest was
\* downloaded and parsed and both artifact downloads succeeded; a file whose
\* digest mismatched is still on disk.
C3_ForceFailsOnlyOnDownload ==
    (Done /\ force) =>
        /\ outcome[1].ok <=> (ManifestOk /\ AllDownloaded)
        /\ \A t \in Artifacts :
              IsMismatch(verification[t]) => result[t][1].val \in DOMAIN fs

C3_Witness ==
    /\ Succeeded /\ force
    /\ \E t \in Artifacts :
          IsMismatch(verification[t]) /\ result[t][1].val \in DOMAIN fs

\* C4: without --insecure, a call sends a request with verification off only
\* after its own strict first attempt failed with a certificate error, the
\* configuration is interactive, stdin is a terminal and the operator
\* accepted; after a declined or failing prompt the call has sent nothing
\* more and returns CertificateError(domain, reason); every call starts with
\* a strict request.
C4_InsecureOnlyByConsent ==
    ~insecure =>
        \A t \in Tasks :
            LET c == call[t] IN
            /\ c.reqs # << >> => c.reqs[1] = "strict"
            /\ "insecure" \in Range(c.reqs) =>
                  /\ c.firstErr # << >>
                  /\ is_certificate_error(c.firstErr[1])
                  /\ for_downloads_with_timeout(insecure, download_timeout).interactive
                  /\ stdinTerminal
                  /\ c.prompt = "accepted"
            /\ tpc[t] = "prompt" => stdinTerminal /\ c.reqs = << "strict" >>
            /\ c.prompt \in {"declined", "failed"} =>
                  /\ tpc[t] = "failed"
                  /\ c.reqs = << "strict" >>
                  /\ lastError[t] =
                        << [kind |-> "CertificateError",
                            domain |-> extract_domain(Url(version, c.file)),
                            reason |-> extract_cert_error_reason(c.firstErr[1])] >>

\* The image task's second call: the first call's retry was consented to and
\* failed, and this call started strict, hit the certificate error again and
\* the operator declined.
C4_Witness ==
    /\ ~insecure
    /\ cand["images"] = 2
    /\ call["images"].reqs = << "strict" >>
    /\ call["images"].prompt = "declined"
    /\ tpc["images"] = "failed"

\* C5: one call sends at most two requests; the second one is the insecure
\* retry, sent after consent; when the retry fails the call ends with that
\* error: no prompt and no request follows.
C5_AtMostOneRetry ==
    /\ [](\A t \in Tasks :
            LET c == call[t] IN
            /\ Len(c.reqs) <= 2
            /\ Len(c.reqs) = 2 => c.reqs[2] = "insecure" /\ c.prompt = "accepted"
            /\ tpc[t] = "prompt" => Len(c.reqs) = 1)
    /\ [][\A t \in Tasks :
            tpc[t] = "retry" =>
                \/ tpc'[t] = "retry" /\ call'[t] = call[t]
                \/ tpc'[t] = "stream"
                \/ /\ tpc'[t] = "failed"
                   /\ lastError'[t] = << [kind |-> "BypassFailed"] >>
                   /\ call'[t] = call[t]]_vars

C5_Witness ==
    \E t \in Tasks :
        /\ tpc[t] = "failed"
        /\ lastError[t] = << [kind |-> "BypassFailed"] >>
        /\ Len(call[t].reqs) = 2

\* C6 (as stated): validate_version rejects exactly the strings that contain
\* '/', '\', '..' or a NUL byte and accepts every other string.
C6_RejectsExactlyForbidden ==
    output # << >> => (~output[1].ok <=> HasForbidden(input))

\* C6 (amended): validate_version rejects exactly the empty string and the
\* strings that contain '/', '\', '..' or a NUL byte; every other string,
\* with '+' and single '.' characters too, is accepted.
C6_RejectsEmptyOrForbidden ==
    output # << >> =>
        /\ ~output[1].ok <=> (Len(input) = 0 \/ HasForbidden(input))
        /\ output[1].ok => output[1].val = input

C6_Witness ==
    /\ output # << >>
    /\ output[1].ok
    /\ "+" \in Range(input)
    /\ "." \in Range(input)

\* C7: nothing is built, created or requested before validate_version has
\* accepted the version; an explicit version that fails validation ends
\* populate with the validation error, no request sent and nothing changed
\* on disk.
ExplicitInvalid ==
    versionArg # << >> /\ (Len(versionArg[1]) = 0 \/ HasForbidden(versionArg[1]))

C7_ValidationFirst ==
    /\ [](ExplicitInvalid =>
            /\ ~validated
            /\ Done => (~outcome[1].ok /\ outcome[1].err.kind = "PathValidation")
            /\ apiRequests = 0)
    /\ [][~validated' =>
            /\ fs' = fs
            /\ ~fsChanged'
            /\ ~dirCreated'
            /\ versionDir' = << >>
            /\ \A t \in Tasks : calls'[t] = 0 /\ tpc'[t] = "idle"]_vars

C7_Witness ==
    /\ Done
    /\ versionArg = << VersionTraversal >>
    /\ ~outcome[1].ok
    /\ outcome[1].err.kind = "PathValidation"

\* C8: an artifact task is started, and an artifact request sent, only after
\* the manifest was downloaded, read and parsed: the tasks leave "idle" in
\* the one step that has parsed a well-formed manifest file; when the
\* manifest's download, read or parse fails populate fails and no artifact
\* task was started.
ArtifactsStarted == \E t \in Artifacts : tpc[t] # "idle" \/ calls[t] > 0

C8_ManifestFirst ==
    /\ [](ArtifactsStarted =>
            /\ ManifestOk
            /\ Downloaded("checksums")
            /\ checksums_filename \in DOMAIN fs)
    /\ []((Done /\ ~ManifestOk) => (~outcome[1].ok /\ ~ArtifactsStarted))
    /\ [][(~ArtifactsStarted /\ ArtifactsStarted') =>
            /\ pc = "checksums"
            /\ Downloaded("checksums")
            /\ WellFormedManifest(fs[checksums_filename])
            /\ fs' = fs
            /\ ManifestOk']_vars

\* The manifest was downloaded, its parse failed, populate is over.
C8_Witness ==
    /\ Done
    /\ Downloaded("checksums")
    /\ ~ManifestOk
    /\ ~WellFormedManifest(fs[checksums_filename])

\* C9 (as stated), for the files that have an entry to be verified
\* against, the binary and the image bundle: in a finished run every one
\* whose download succeeded was verified exactly once.
C9_VerifiedExactlyOnce ==
    Done => \A t \in Artifacts :
                Downloaded(t) => verifyCount[result[t][1].val] = 1

\* C10: the failure of one artifact task changes nothing of the other task,
\* and download_remaining_files returns only when both tasks are done and
\* process_download_results got one result of each, binary then images.
C10_NoSiblingAbort ==
    /\ []((ManifestOk /\ outcome # << >>) =>
            /\ \A t \in Artifacts : tpc[t] = "done"
            /\ Len(results) = 2
            /\ results[1] = DownloadResult("binary")
            /\ results[2] = DownloadResult("images"))
    /\ [][\A t \in Artifacts :
            (result[t] = << >> /\ result'[t] # << >> /\ ~result'[t][1].ok) =>
                \A u \in Artifacts \ {t} :
                    /\ tpc'[u] = tpc[u]
                    /\ result'[u] = result[u]
                    /\ body'[u] = body[u]]_vars

\* The binary's download failed, the image bundle was still downloaded and
\* verified, and the run reports the one failure.
C10_Witness ==
    /\ Done
    /\ Len(results) = 2
    /\ ~results[1].result.ok
    /\ results[2].result.ok
    /\ IsVerified(results[2].verification)

\* C11: the image bundle's candidates are attempted in the order .tar.zst,
\* .tar.gz, .tar: the task moves to the next candidate only from the failure
\* of the current one, every request is for the current candidate, the task
\* returns the first candidate that succeeded and attempts nothing after it,
\* and it returns an error only after the last candidate failed.
C11_FallbackInOrder ==
    /\ [](/\ cand["images"] \in 1..Len(formats)
          /\ calls["images"] <= cand["images"]
          /\ result["images"] # << >> =>
                IF result["images"][1].ok
                THEN result["images"][1].val = formats[cand["images"]]
                ELSE cand["images"] = Len(formats))
    /\ [][/\ cand'["images"] # cand["images"] =>
                /\ cand'["images"] = cand["images"] + 1
                /\ tpc["images"] = "failed"
                /\ result["images"] = << >>
          /\ calls'["images"] # calls["images"] =>
                /\ calls'["images"] = calls["images"] + 1
                /\ call'["images"].file = formats[cand["images"]]
                /\ result["images"] = << >>
          /\ result["images"] # << >> =>
                /\ result'["images"] = result["images"]
                /\ cand'["images"] = cand["images"]
                /\ calls'["images"] = calls["images"]]_vars

\* .tar.zst and .tar.gz were requested and failed, .tar was requested and
\* its path is what the task returned.
C11_Witness ==
    /\ calls["images"] = 3
    /\ result["images"] = << Ok(formats[3]) >>
    /\ formats[1] \notin DOMAIN fs
    /\ formats[2] \notin DOMAIN fs

\* C12: verify_file_from_checksums returns Ok exactly when the manifest has
\* an entry for the file's name and the digest of the file equals the entry
\* up to letter case; Mismatch, carrying the expected and the actual digest,
\* exactly when the entry exists and the digest of the file differs from it;
\* NotFound exactly when there is no entry, whether the file is there or
\* not.  (A file that has an entry and cannot be read gives an I/O error.)
EqIgnoreCase(a, b) ==
    Len(a) = Len(b) /\ \A k \in 1..Len(a) : LowerChar(a[k]) = LowerChar(b[k])

C12_VerifyOutcomes ==
    (output # << >> /\ input.fn = "verify_file_from_checksums") =>
        LET r == output[1]
            hasEntry == input.entry # << >>
            readable == input.file # << >>
            same == EqIgnoreCase(Sha256(input.file[1]), input.entry[1])
        IN  /\ r.ok <=> (hasEntry /\ readable /\ same)
            /\ (~r.ok /\ r.err.kind = "Mismatch") <=> (hasEntry /\ readable /\ ~same)
            /\ (~r.ok /\ r.err.kind = "Mismatch") =>
                  /\ r.err.actual = Sha256(input.file[1])
                  /\ EqIgnoreCase(r.err.expected, input.entry[1])
                  /\ r.err.filename = input.name
            /\ (~r.ok /\ r.err.kind = "NotFound") <=> ~hasEntry
            /\ (~r.ok /\ r.err.kind = "Io") <=> (hasEntry /\ ~readable)

\* An upper-case entry that equals the file's digest: verified.
C12_Witness ==
    /\ output # << >>
    /\ input.fn = "verify_file_from_checksums"
    /\ input.entry = << to_uppercase(DigestA) >>
    /\ input.file = << ContentA >>
    /\ output[1].ok

\* C13: for a manifest all of whose lines are blank, comments or entries
\* "<digest> <name>" (the name possibly marked with '*'), parse_checksum_file
\* returns the mapping whose keys are exactly the names listed, each mapped
\* to the lower-cased digest of the last line that lists it.
WellFormedLines(ls) ==
    \A k \in 1..Len(ls) : ls[k].kind \in {"entry", "blank", "comment"}

ListedNames(ls) == {ls[k].name : k \in {j \in 1..Len(ls) : ls[j].kind = "entry"}}

LastListing(ls, name) ==
    CHOOSE k \in 1..Len(ls) :
        /\ ls[k].kind = "entry" /\ ls[k].name = name
        /\ \A j \in (k + 1)..Len(ls) : ~(ls[j].kind = "entry" /\ ls[j].name = name)

C13_ParseLastWins ==
    (output # << >> /\ input.fn = "parse_checksum_file"
                   /\ WellFormedLines(input.lines)) =>
        /\ output[1].ok
        /\ DOMAIN output[1].val = ListedNames(input.lines)
        /\ \A name \in ListedNames(input.lines) :
              LET d == input.lines[LastListing(input.lines, name)].digest IN
              /\ EqIgnoreCase(output[1].val[name], d)
              /\ \A k \in 1..Len(d) : output[1].val[name][k] \notin UpperSet

\* Two lines list k3s, the second one with an upper-case digest and the
\* binary-mode marker.
C13_Witness ==
    /\ output # << >>
    /\ input.fn = "parse_checksum_file"
    /\ Len(input.lines) = 2
    /\ input.lines[1] = EntryLine(<< >>, DigestA, <<" ", " ">>, k3s_binary_name, << >>)
    /\ input.lines[2] = EntryLine(<< >>, to_uppercase(DigestAB), <<" ", "*">>,
                                  k3s_binary_name, << >>)
    /\ output[1].ok
    /\ output[1].val[k3s_binary_name] = DigestAB

\* C14 (as stated): parse_checksum_file returns a format error whenever a
\* line that is not blank and not a comment does not consist of exactly two
\* whitespace-separated fields, is separated by a tab, or has a first field
\* that is not 64 hexadecimal characters; and of an accepted line only one
\* leading '*' of the file name is stripped.
RECURSIVE WsFields(_)
WsFields(s) ==
    LET t == trim_start(s) IN
    IF Len(t) = 0 THEN << >>
    ELSE LET n == CHOOSE k \in 1..(Len(t) + 1) :
                      /\ k = Len(t) + 1 \/ t[k] \in Whitespace
                      /\ \A j \in 1..(k - 1) : t[j] \notin Whitespace
         IN  << SubSeq(t, 1, n - 1) >> \o WsFields(SubSeq(t, n, Len(t)))

IsHex64(h) == Len(h) = HashLen /\ \A k \in 1..Len(h) : h[k] \in HexDigits

IsContentLine(text) == Len(trim(text)) > 0 /\ trim(text)[1] # "#"

TwoFieldLine(text) ==
    /\ Len(WsFields(text)) = 2
    /\ "\t" \notin Range(trim(text))
    /\ IsHex64(WsFields(text)[1])

StripOneStar(name) == IF starts_with(name, "*") THEN Tail(name) ELSE name

C14_RejectsNotTwoFields ==
    (output # << >> /\ input.fn = "parse_checksum_file") =>
        LET ls == input.lines
            content == {k \in 1..Len(ls) : IsContentLine(ls[k].text)}
        IN  /\ (\E k \in content : ~TwoFieldLine(ls[k].text)) => ~output[1].ok
            /\ output[1].ok =>
                  DOMAIN output[1].val =
                      {StripOneStar(WsFields(ls[k].text)[2]) : k \in content}

\* C14 (amended): the parse fails exactly when some line that is not blank
\* and not a comment has, after trimming, no space in it, or the part before
\* its first space is not 64 hexadecimal characters once trimmed; of an
\* accepted line, all that follows the first space, trimmed and with every
\* leading '*' stripped, is the file name (it may hold spaces and tabs).
FirstSpace(t) == CHOOSE k \in 1..Len(t) : t[k] = " " /\ \A j \in 1..(k - 1) : t[j] # " "

LeadingStars(s) ==
    CHOOSE n \in 0..Len(s) :
        /\ \A j \in 1..n : s[j] = "*"
        /\ n = Len(s) \/ s[n + 1] # "*"

AcceptedLine(text) ==
    LET t == trim(text) IN
    /\ " " \in Range(t)
    /\ IsHex64(trim(SubSeq(t, 1, FirstSpace(t) - 1)))

AcceptedName(text) ==
    LET t == trim(text)
        rest == trim(SubSeq(t, FirstSpace(t) + 1, Len(t)))
    IN  SubSeq(rest, LeadingStars(rest) + 1, Len(rest))

C14_RejectsByFirstSpace ==
    (output # << >> /\ input.fn = "parse_checksum_file") =>
        LET ls == input.lines
            content == {k \in 1..Len(ls) : IsContentLine(ls[k].text)}
        IN  /\ output[1].ok <=> \A k \in content : AcceptedLine(ls[k].text)
            /\ output[1].ok =>
                  DOMAIN output[1].val = {AcceptedName(ls[k].text) : k \in content}
            /\ ~output[1].ok => output[1] = Err("InvalidFormat")

\* A line of three fields and a line whose name has two '*' are both
\* accepted: the names are "k3s x" and "k3s".
C14_Witness ==
    /\ output # << >>
    /\ input.fn = "parse_checksum_file"
    /\ Len(input.lines) = 2
    /\ input.lines[1].text = DigestA \o <<" ", " ">> \o k3s_binary_name \o <<" ", "x">>
    /\ input.lines[2].text = DigestA \o <<" ", "*", "*">> \o k3s_binary_name
    /\ output[1].ok
    /\ DOMAIN output[1].val = {k3s_binary_name \o <<" ", "x">>, k3s_binary_name}

\* A hard error: the download failed, or the verification failed with force
\* off.
HardError(d) ==
    \/ ~d.result.ok
    \/ d.verification # << >> /\ ~d.verification[1].ok /\ ~force

\* The entry the error list owes a task with a hard error: the file the
\* error belongs to (the file that failed its verification, or the file
\* whose download returned the error) and that error itself.
SpecificEntry(t) ==
    IF result[t][1].ok
    THEN [file |-> result[t][1].val, msg |-> verification[t][1].err]
    ELSE [file |-> TargetName(t, cand[t]), msg |-> result[t][1].err]

\* C15 (as stated): process_download_results returns an error exactly when
\* some file has a hard error (its download failed, or its verification
\* failed with force off); the error lists one entry per such file, naming
\* the file and its specific reason (the error its download or its
\* verification ended with), and its count is the number of entries;
\* populate does not succeed then.
C15_OneEntryPerHardError ==
    (results # << >>) =>
        LET hard == {t \in Artifacts : HardError(DownloadResult(t))} IN
        /\ Len(report) = Cardinality(hard)
        /\ \A t \in hard :
              Cardinality({j \in 1..Len(report) : report[j] = SpecificEntry(t)}) = 1
        /\ hard # {} =>
              /\ Done
              /\ outcome = << Err([kind |-> "Failed to download/verify",
                                   count |-> Cardinality(hard),
                                   errors |-> report]) >>
        /\ hard = {} => (outcome # << >> => outcome[1].ok)

\* C16 (as stated): with force off, when every download succeeds (each file
\* fetched with one request) and only
\* the binary's digest differs from its manifest entry, populate fails with
\* exactly one hard error, which names the binary and carries the expected
\* and the actual digest.
C16_MismatchErrorCarriesDigests ==
    ( /\ Done /\ ~force /\ ManifestOk /\ AllDownloaded
      /\ \A t \in Tasks : calls[t] = 1
      /\ IsMismatch(verification["binary"])
      /\ IsVerified(verification["images"]) )
    => /\ ~outcome[1].ok
       /\ Len(report) = 1
       /\ report[1].file = k3s_binary_name
       /\ {"expected", "actual"} \subseteq DOMAIN report[1]
       /\ report[1].expected = verification["binary"][1].err.expected
       /\ report[1].actual = verification["binary"][1].err.actual

\* A finished run in which every download succeeded and only the binary's
\* digest differs from its manifest entry.
OnlyBinaryMismatch ==
    /\ Done /\ ManifestOk /\ AllDownloaded
    /\ IsMismatch(verification["binary"])
    /\ IsVerified(verification["images"])

\* C17 (as stated): with force on, when every download succeeds and only the
\* binary's digest differs from its manifest entry, populate succeeds and
\* emits exactly one warning for the mismatch.
C17_ForceOneWarning ==
    (OnlyBinaryMismatch /\ force) => (outcome[1].ok /\ Len(warnings) = 1)

\* C18 (as stated): for every file in the version directory the scan reports
\* verified = Some(true) exactly when the file verifies against the version's
\* manifest, Some(false) exactly when that verification ends in Mismatch, and
\* None in every other case.
ScanEntries(out) == {out.files[k] : k \in 1..Len(out.files)} \cup out.additional

ScanVerification(i, name) ==
    LET readable == ScanDir(i.files, i.unreadable)
        parsed == IF checksums_filename \in DOMAIN readable
                  THEN parse_checksum_file(readable[checksums_filename])
                  ELSE Err("unreadable")
    IN  IF parsed.ok
        THEN verify_file_from_checksums(readable, name, parsed.val)
        ELSE Err([kind |-> "NoManifest"])

C18_ScanReportsVerification ==
    (output # << >> /\ input.fn = "scan_version_files") =>
        \A name \in DOMAIN ScanDir(input.files, {}) :
            \E e \in ScanEntries(output[1]) :
                /\ e.name = name
                /\ LET v == ScanVerification(input, name) IN
                   e.verified = IF v.ok THEN << TRUE >>
                                ELSE IF v.err.kind = "Mismatch" THEN << FALSE >>
                                ELSE << >>

\* C19: when a download fails while streaming, the destination file is gone
\* in the step that fails and the error is the streaming error; a task that
\* returned a failure has left none of its files behind, except a file of
\* size zero that was there before and that the task never opened.
TaskFiles(t) ==
    IF t = "images" THEN {formats[k] : k \in 1..Len(formats)} ELSE {TargetName(t, 1)}

C19_NoPartialFile ==
    /\ [][\A t \in Tasks :
            (tpc[t] = "stream" /\ tpc'[t] = "failed") =>
                /\ call[t].file \notin DOMAIN fs'
                /\ lastError'[t] = << StreamError >>]_vars
    /\ [](\A t \in Tasks :
            (result[t] # << >> /\ ~result[t][1].ok) =>
                /\ lastError[t] = << StreamError >> => result[t][1].err = StreamError
                /\ \A n \in TaskFiles(t) :
                      n \in DOMAIN fs =>
                          /\ Len(fs[n]) = 0
                          /\ t # "images"
                          /\ lastError[t] # << StreamError >>)

\* The binary's download broke after its first chunk was on disk: the task
\* returned the streaming error and the file is gone.
C19_Witness ==
    /\ cand["images"] = 1
    /\ calls["images"] = 0
    /\ lastError["images"] = << BuildFailed >>

\* C21: a file is first verified in the step that follows its own download's
\* successful return (every chunk written or the cached file found), before
\* the join and whatever the sibling is doing; a task that has returned can
\* always take its verification step.
InFlight(t) == tpc[t] \in {"start", "sent", "prompt", "retry", "stream", "failed"}

C21_VerifyAfterOwnDownload ==
    /\ [][\A t \in Artifacts :
            verification'[t] # verification[t] =>
                /\ tpc[t] = "returned" /\ tpc'[t] = "done"
                /\ verification'[t] # << >> <=> result[t][1].ok
                /\ result[t][1].ok =>
                      /\ body[t] = << >>
                      /\ result[t][1].val \in DOMAIN fs
                      /\ verifyCount'[result[t][1].val] = verifyCount[result[t][1].val] + 1
                /\ pc = "remaining" /\ results = << >>]_vars
    /\ [][\A f \in FileNames :
            (verifyCount[f] = 0 /\ verifyCount'[f] > 0) =>
                \E t \in Artifacts : verification'[t] # verification[t]]_vars
    /\ [](\A t \in Artifacts :
            (verification[t] # << >>) => (result[t] # << >> /\ result[t][1].ok))
    /\ [](\A t \in Artifacts :
            tpc[t] = "returned" => ENABLED DownloadAndVerify(t))

\* The binary is verified while the image bundle is still being streamed.
C21_Witness ==
    /\ verification["binary"] # << >>
    /\ verification["binary"][1].ok
    /\ tpc["images"] = "stream"
    /\ results = << >>

\* C22: while one download task is in the certificate prompt, a sibling that
\* has started (its request is out or its response is being written) can
\* take its next network or disk step.
SiblingStep(u) ==
    \/ FirstResponse(u)
    \/ RetryResponse(u)
    \/ StreamChunk(u)
    \/ StreamFail(u)
    \/ StreamFinish(u)

C22_PromptDoesNotBlockSibling ==
    \A t \in Artifacts : \A u \in Artifacts \ {t} :
        (tpc[t] = "prompt" /\ tpc[u] \in {"sent", "retry", "stream"}) =>
            ENABLED SiblingStep(u)

\* The step in which the first attempt of task t's call fails with error e.
FirstAttemptFails(t, e) ==
    /\ tpc[t] = "sent"
    /\ call[t].firstErr = << >>
    /\ call'[t].firstErr = << e >>

\* The call of task t returns ConnectionRefused at once: the task is on its
\* error path, no prompt was shown and the one request is all that was sent.
RefusedAtOnce(t) ==
    /\ tpc'[t] = "failed"
    /\ lastError'[t] = << ConnectionRefused >>
    /\ call'[t].prompt = "none"
    /\ Len(call'[t].reqs) = 1

\* C23 as stated: a connection-class error of the first attempt returns
\* ConnectionRefused at once, with no prompt and no second request, whatever
\* its text.
C23_ConnectErrorFailsAtOnce ==
    [][\A t \in Tasks : \A e \in NetErrors :
         (FirstAttemptFails(t, e) /\ e.connect) => RefusedAtOnce(t)]_vars

\* C23, amended: that holds for a connection-class error whose text matches
\* none of the certificate patterns; one whose text matches is handled as a
\* certificate error (it fails with CertificateError or opens the prompt).
C23_ConnectErrorUnlessCertificateText ==
    [][\A t \in Tasks : \A e \in NetErrors :
         (FirstAttemptFails(t, e) /\ e.connect) =>
            IF is_certificate_error(e)
            THEN /\ lastError'[t] = << CertificateError(Url(version, call[t].file), e) >>
                 /\ tpc'[t] \in {"prompt", "failed"}
                 /\ tpc'[t] = "prompt" <=> (~insecure /\ stdinTerminal)
            ELSE RefusedAtOnce(t)]_vars

\* The binary's first attempt was refused; the task is on its error path
\* with the one request it sent.
C23_Witness ==
    /\ tpc["binary"] = "failed"
    /\ call["binary"].firstErr = << ErrRefused >>
    /\ lastError["binary"] = << ConnectionRefused >>
    /\ Len(call["binary"].reqs) = 1
    /\ call["binary"].prompt = "none"

\* An error e wrapped in the aggregate image-download failure.
TaggedAggregate(e) == [kind |-> AggregateImageFailure.kind, source |-> e]

\* C24: when the image task has failed on all three candidates, its result is
\* the error of the .tar attempt tagged as the aggregate image-download
\* failure, and none of the three candidate files is on disk.
C24_LastErrorTaggedAggregate ==
    (/\ result["images"] # << >>
     /\ ~result["images"][1].ok) =>
        /\ cand["images"] = Len(formats)
        /\ result["images"][1].err = TaggedAggregate(lastError["images"][1])
        /\ \A k \in 1..Len(formats) : formats[k] \notin DOMAIN fs

\* C24, amended: the image task that has failed on all three candidates
\* returns the error of the .tar attempt as it is, with no tag, and none of
\* the three candidate files is on disk.
C24_LastErrorAsIs ==
    (/\ result["images"] # << >>
     /\ ~result["images"][1].ok) =>
        /\ cand["images"] = Len(formats)
        /\ result["images"][1].err = lastError["images"][1]
        /\ \A k \in 1..Len(formats) : formats[k] \notin DOMAIN fs

\* All three image candidates were requested and failed, the last one with a
\* refused connection, which is what the task returned.
C24_Witness ==
    /\ result["images"] = << Err(ConnectionRefused) >>
    /\ calls["images"] = Len(formats)
    /\ cand["images"] = Len(formats)
    /\ lastError["images"] = << ConnectionRefused >>

\* C25 (as stated): every request sent for a download, the insecure retry
\* included, runs under a timeout of at most the configured download timeout.
C25_EveryRequestUnderDownloadTimeout ==
    \A t \in Tasks :
        /\ Len(call[t].timeouts) = Len(call[t].reqs)
        /\ \A k \in 1..Len(call[t].timeouts) : call[t].timeouts[k] <= download_timeout

\* C26: the provider is installed at most once; from the moment a check
\* has passed the Once it has been installed exactly once and the Once is
\* complete; every TLS configuration was built after the installation; and
\* when all checks are over it has run exactly once.
PastOnce(c) == cpc[c] \in {"config", "connect", "handshake", "done"}

C26_ProviderInstalledOnce ==
    /\ installs <= 1
    /\ \A c \in Checks :
          /\ PastOnce(c) => (installs = 1 /\ CRYPTO_PROVIDER_INIT = "complete")
          /\ tlsConfig[c] # << >> => tlsConfig[c][1].provider
    /\ (\A c \in Checks : cpc[c] \in {"idle", "done"}) => installs = 1

\* Three checks ran to their end on one installation: the second and the
\* third passed the Once without running the closure.
C26_Witness ==
    /\ input.endpoints = 3
    /\ \A c \in 1..3 : cpc[c] = "done" /\ tlsConfig[c] # << >>
    /\ installs = 1

\* The tags the release host returned with prerelease and draft both off.
StableTags ==
    UNION {{rs[k].tag_name : k \in {j \in 1..Len(rs) : ~rs[j].prerelease /\ ~rs[j].draft}} :
             rs \in ReleaseLists}

SelectionFailures ==
    {"Failed to fetch", "GitHub API returned status", "Failed to parse",
     "No stable k3s releases found", "not running in interactive mode",
     "Failed to get version selection"}

\* A run without a version ended in the release query or the selection: with
\* one of their errors, or with the client of the query not built (no
\* request was sent to the release host).
EndedInSelection ==
    /\ outcome # << >>
    /\ ~outcome[1].ok
    /\ \/ outcome[1].err.kind \in SelectionFailures
       \/ outcome[1].err.kind = BuildFailed.kind /\ apiRequests = 0

\* C27: a populate run without a version has built its cache path only for
\* a stable tag of the release list that the operator selected on a
\* terminal (and that passed validation); a run that ended in the query or
\* the selection has created no directory and requested no artifact.
C27_SelectedStableTagOnly ==
    versionArg = << >> =>
        /\ apiRequests <= 1
        /\ (versionDir # << >> \/ dirCreated \/ \E t \in Tasks : calls[t] > 0) =>
              /\ stdinTerminal
              /\ apiRequests = 1
              /\ version \in StableTags
              /\ version \in Range(available)
              /\ validated
        /\ EndedInSelection =>
              /\ versionDir = << >>
              /\ ~dirCreated
              /\ ~fsChanged
              /\ fs = EmptyCache
              /\ \A t \in Tasks : calls[t] = 0 /\ tpc[t] = "idle"
        /\ (pc = "done" /\ (~stdinTerminal \/ available = << >>)) => EndedInSelection

\* A run without a version: the operator chose the stable tag among a
\* prerelease and a draft, and the manifest has been requested.
C27_Witness ==
    /\ versionArg = << >>
    /\ available = << VersionGood >>
    /\ version = VersionGood
    /\ dirCreated
    /\ calls["checksums"] = 1

\* The raw error text names a self-signed certificate or a missing issuer.
RawTextTriggers(text) ==
    \/ contains(text, StrSelfSigned)
    \/ contains(text, StrSelfSignedUpper)
    \/ contains(text, StrLocalIssuer)

\* C28: when the first attempt's error text contains "self signed",
\* "SELF_SIGNED" or "unable to get local issuer" and the prompt is shown,
\* the prompt carries the corporate-proxy hint.
C28_ProxyHintShown ==
    (/\ output # << >>
     /\ input.fn = "request_with_cert_handling"
     /\ output[1].prompt # << >>
     /\ RawTextTriggers(input.e.text)) =>
        output[1].prompt[1].proxy_hint

\* C29: after a run with force off that failed on the digest mismatch of a
\* file it had downloaded, that file is not in the version directory as a
\* non-empty file.
C29_MismatchedFileRemoved ==
    (/\ pc = "done"
     /\ ~force
     /\ outcome # << >>
     /\ ~outcome[1].ok) =>
        \A t \in Artifacts :
            (/\ calls[t] > 0
             /\ result[t] # << >>
             /\ result[t][1].ok
             /\ verification[t] # << >>
             /\ ~verification[t][1].ok
             /\ verification[t][1].err.kind = "Mismatch") =>
                ~check_existing_file(fs, result[t][1].val)

\* C30: the scan of the version directory left by a successful populate run
\* that verified its image bundle reports complete = true and gives the
\* image bundle the run selected a status of verified or mismatch.
C30_ScanAfterPopulate ==
    (/\ pc = "done"
     /\ outcome = << Ok("cached") >>
     /\ result["images"] # << >>
     /\ result["images"][1].ok
     /\ verification["images"] # << >>
     /\ verification["images"][1].ok) =>
        LET out == scan_version_files(fs, fs) IN
        /\ out.complete
        /\ \E e \in ScanEntries(out) :
              /\ e.name = result["images"][1].val
              /\ e.verified # << >>

====
